---- MODULE Spec2Model ----
(***************************************************************************)
(* InjSense: the injury-risk classifier (prediction_model.PredictionModel) *)
(* as a state machine.  One PredictionModel object, the joblib artifact    *)
(* files it reads and writes, and Python's module-level random generator   *)
(* that predict_risk draws from when athlete_data lacks a feature.         *)
(*                                                                         *)
(* Numbers.  Feature values are integers (temperature_variation in tenths  *)
(* of a degree).  A class-1 probability is the numerator p of p/ProbDen    *)
(* with ProbDen a power of two, so that probability * 100 and              *)
(* (1 - abs(probability - 0.5) * 2) * 100 are exact in binary floating     *)
(* point and int() of them is the integer quotient written here.           *)
(* An importance is a numerator over ImpDen.                               *)
(***************************************************************************)
EXTENDS Integers, Sequences, FiniteSets, TLC

VARIABLES
    phase,        \* "Untrained" until __init__ has returned, then "Trained"
    model,        \* self.model: {} is None, {p} is the fitted Pipeline p
    disk,         \* file name -> [state: "absent" | "corrupt" | "ok", content]
    rng,          \* state of the module-level generator of `random`
    pred,         \* {} or {record of the most recent predict_risk call}
    pin,          \* {} or {record of some earlier predict_risk call}
    raised,       \* exception the most recent call ended with, or "none"
    importances,  \* {} or {the most recent get_feature_importance call: the
                  \* pipeline it read and the value it returned}
    nprng,        \* state of numpy's global generator (np.random)
    journal,      \* {} when no record is kept, else {the two most recent
                  \* __init__ / train_model / save_model / load_model calls}
    threads,      \* thread -> the predict_risk or get_athlete_data call it is in
    calc,         \* {} or {the most recent signal-processing call: its
                  \* function, its arguments and what it returned}
    kept,         \* {} or {the signal-processing call before the most recent
                  \* one, when the most recent one reuses its window}
    processor     \* the fields of the DataProcessor object

vars == <<phase, model, disk, rng, pred, pin, raised, importances,
          nprng, journal, threads, calc, kept, processor>>

----------------------------------------------------------------------------
(* Bounds of the model *)

ProbBits == 7       \* probabilities are multiples of 1 / 2^ProbBits
ImpDen == 8         \* importances are multiples of 1 / ImpDen
RngStates == 3      \* number of generator states that are told apart

ProbDen == 2 ^ ProbBits

----------------------------------------------------------------------------
(* PredictionModel.__init__: the schema and the default artifact name *)

feature_names ==
    << "semg_imbalance", "muscle_fatigue", "training_load", "recovery_time",
       "previous_injuries", "temperature_variation", "age", "consecutive_games" >>

NFeatures == Len(feature_names)

DefaultFile == "injury_prediction_model.joblib"
OtherFile == "backup.joblib"
FileNames == {DefaultFile, OtherFile}

None == {}

Abs(x) == IF x < 0 THEN -x ELSE x
Min(a, b) == IF a < b THEN a ELSE b
Max(a, b) == IF a > b THEN a ELSE b

RECURSIVE SumSeq(_)
SumSeq(s) == IF s = << >> THEN 0 ELSE Head(s) + SumSeq(Tail(s))

----------------------------------------------------------------------------
(* Fitted pipelines: StandardScaler followed by a forest of trees.          *)
(* A tree is a single leaf (feature = 0) or one split on a standardized     *)
(* feature; its leaves hold class-1 probabilities (numerators over ProbDen).*)

Leaf(v) == [feature |-> 0, threshold |-> 0, left |-> v, right |-> v]
Split(f, t, l, r) == [feature |-> f, threshold |-> t, left |-> l, right |-> r]

Zeros == [i \in 1..NFeatures |-> 0]
Ones == [i \in 1..NFeatures |-> 1]

\* train_model: n_samples, and the seed of np.random, of the split and of
\* the forest.
NSamples == 1000
RandomSeed == 42

\* The pipeline fitted to the samples that follow np.random.seed(42).
TrainedPipeline ==
    [ scaler |-> [ mean_ |-> <<25, 50, 50, 36, 2, 15, 26, 7>>,
                   scale_ |-> <<14, 29, 29, 21, 2, 9, 5, 5>> ],
      classifier |->
        [ estimators_ |-> << Split(1, -1, ProbDen \div 8, ProbDen - ProbDen \div 8),
                             Split(2, 1, ProbDen \div 4, ProbDen - ProbDen \div 8) >>,
          feature_importances_ |-> <<ImpDen - 3, 2, 0, 0, 1, 0, 0, 0>> ] ]

\* An artifact written by an earlier run of the program (other training data).
OlderPipeline ==
    [ scaler |-> [ mean_ |-> <<20, 40, 60, 30, 1, 10, 25, 5>>,
                   scale_ |-> <<10, 20, 20, 15, 1, 5, 4, 3>> ],
      classifier |->
        [ estimators_ |-> << Split(3, 0, 0, ProbDen \div 2),
                             Split(4, -1, ProbDen, ProbDen \div 2) >>,
          feature_importances_ |-> <<1, 1, 2, 2, 0, 1, 0, 1>> ] ]

\* A forest whose trees never split: it predicts p / ProbDen for every input
\* and reports all-zero importances.
ConstantPipeline(p) ==
    [ scaler |-> [mean_ |-> Zeros, scale_ |-> Ones],
      classifier |-> [ estimators_ |-> << Leaf(p) >>,
                       feature_importances_ |-> Zeros ] ]

\* StandardScaler.transform: (x - mean_) / scale_, kept as an exact fraction.
Transform(scaler, X) ==
    [i \in 1..Len(X) |-> [num |-> X[i] - scaler.mean_[i], den |-> scaler.scale_[i]]]

TreeProba(tree, Z) ==
    IF tree.feature = 0 THEN tree.left
    ELSE IF Z[tree.feature].num <= tree.threshold * Z[tree.feature].den
         THEN tree.left
         ELSE tree.right

\* RandomForestClassifier.predict_proba(...)[0, 1]: the mean over the trees.
ForestProba(classifier, Z) ==
    SumSeq([t \in 1..Len(classifier.estimators_) |->
                TreeProba(classifier.estimators_[t], Z)])
        \div Len(classifier.estimators_)

\* Pipeline.predict_proba(X)[0, 1]
PredictProba(pipeline, X) ==
    ForestProba(pipeline.classifier, Transform(pipeline.scaler, X))

----------------------------------------------------------------------------
(* athlete_data: the dict handed to predict_risk.  num holds its numeric     *)
(* entries (schema features and any other key), injury_history is {} when    *)
(* the key is absent and {list} when it is present.                          *)

AthleteData(num, hist) == [num |-> num, injury_history |-> hist]

Has(data, key) == key \in DOMAIN data.num

\* Variant: the injury history is not read.
InjuryHistoryUnread(data) == << >>

\* athlete_data.get('injury_history', [])
InjuryHistory(data) ==
    IF data.injury_history = {} THEN << >>
    ELSE CHOOSE h \in data.injury_history : TRUE

----------------------------------------------------------------------------
(* The module-level generator of `random`.  Seeded from the system, its     *)
(* state is one of RngStates states that are told apart: random() is         *)
(* rng / RngStates and every draw moves the generator to its next state.     *)
(* Seeded with the id of an athlete, the generator yields the Mersenne       *)
(* Twister's 32-bit words for that seed; its state is then the seed and the  *)
(* number of words taken since.                                              *)

NextRng(r) == (r + 1) % RngStates

\* random.seed(athlete_id) for the ids of the roster: the words the generator
\* yields from then on, each cut to its leading bits (WordDen has one more).
SeededWords ==
    <<
       << 8805, 37303, 55537, 52577, 50054, 4135, 16716, 7727,
          32468, 49870, 29457, 30949, 42702, 24878, 51689, 13759,
          6151, 31972, 1857, 58544, 54772, 25546, 28361, 39809,
          49956, 50276, 138, 45602, 29188, 17454, 47286, 52548 >>,
       << 62654, 56564, 62116, 55643, 3706, 6002, 5562, 23662,
          54755, 11081, 48232, 53016, 43891, 55956, 20194, 16487,
          39711, 13907, 39767, 2341, 38089, 44646, 10379, 65517,
          28224, 41842, 25790, 52669, 47383, 56376, 65196, 33362 >>,
       << 15595, 38839, 35666, 8547, 24245, 60027, 39578, 31067,
          41007, 38066, 4294, 39688, 862, 59560, 54884, 30751,
          16997, 36096, 15357, 12566, 65250, 46999, 30819, 35453,
          54818, 36020, 31218, 26026, 41881, 56427, 9870, 15199 >>,
       << 15469, 19876, 6761, 47265, 25956, 31383, 10156, 5904,
          4359, 1298, 26318, 36005, 60159, 18964, 52458, 64882,
          50145, 3856, 14544, 34100, 35171, 23609, 18132, 51101,
          11315, 54189, 6958, 17152, 14050, 61797, 60783, 1680 >>,
       << 40822, 16740, 48613, 23496, 52113, 45249, 61764, 55149,
          48489, 42731, 60445, 34736, 1900, 55073, 30515, 50853,
          61823, 16321, 42531, 3398, 59041, 10279, 7419, 24365,
          30740, 56914, 16159, 24953, 35635, 6682, 37613, 16340 >>,
       << 51992, 37605, 53867, 5280, 31787, 49952, 17145, 2413,
          29, 9540, 43438, 38435, 30818, 63276, 49789, 48158,
          24455, 20931, 50471, 1434, 17871, 32036, 52554, 12983,
          47829, 57180, 27132, 59675, 35278, 35340, 44698, 6174 >>,
       << 21222, 62119, 9886, 25875, 42659, 3164, 4747, 53823,
          35119, 6168, 23965, 38193, 3801, 59618, 33255, 14070,
          2457, 5632, 28419, 27405, 4578, 15772, 5944, 36113,
          27821, 3873, 54188, 37057, 8113, 62092, 14630, 41328 >> >>

WordDen == 2 ^ 16

\* the words kept of each stream
StreamLen == Len(SeededWords[1])

\* random.seed(athlete_id): the start of the stream of that seed
SeedState(athlete_id) == RngStates + (athlete_id - 1) * StreamLen

\* The generator was seeded with an id and not from the system since.
IsSeeded(r) == r >= RngStates

\* The k-th word the generator in the seeded state r yields next
Word(r, k) ==
    SeededWords[(r - RngStates) \div StreamLen + 1][((r - RngStates) % StreamLen) + k]

\* int.bit_length
RECURSIVE BitLength(_)
BitLength(n) == IF n = 0 THEN 0 ELSE 1 + BitLength(n \div 2)

\* Random._randbelow(n) in a seeded state: getrandbits(n.bit_length()) is the
\* leading bits of one word, and is drawn again until it is below n.
RECURSIVE RandBelow(_, _)
RandBelow(r, n) ==
    LET drawn == Word(r, 1) \div (WordDen \div 2 ^ BitLength(n))
    IN  IF drawn < n THEN [value |-> drawn, rng |-> r + 1] ELSE RandBelow(r + 1, n)

\* One getrandbits(n.bit_length()) of _randbelow(n) made in state r: whether
\* it is below n, so that the loop ends.  The word of a seeded state is known;
\* a state taken from the system can yield a word on either side of n.
Accepts(r, n) ==
    IF IsSeeded(r)
    THEN {Word(r, 1) \div (WordDen \div 2 ^ BitLength(n)) < n}
    ELSE BOOLEAN

\* The generator after one getrandbits of at most 32 bits
AfterWord(r) == IF IsSeeded(r) THEN r + 1 ELSE NextRng(r)

\* random.random() > 0.5
RandomAboveHalf(r) ==
    IF IsSeeded(r) THEN 2 * Word(r, 1) > WordDen ELSE 2 * r > RngStates

\* random.uniform(a, b) = a + (b - a) * random(), cut to a whole number
Uniform(r, a, b) ==
    IF IsSeeded(r) THEN a + ((b - a) * Word(r, 1)) \div WordDen
    ELSE a + ((b - a) * r) \div RngStates

\* The generator after random() or random.uniform: random() takes two words.
AfterRandom(r) == IF IsSeeded(r) THEN r + 2 ELSE NextRng(r)

\* random.randint(a, b) = a + randbelow(b - a + 1)
RandInt(r, a, b) ==
    IF IsSeeded(r) THEN a + RandBelow(r, b - a + 1).value
    ELSE a + ((b - a + 1) * r) \div RngStates

\* The generator after random.randint(a, b)
AfterRandInt(r, a, b) ==
    IF IsSeeded(r) THEN RandBelow(r, b - a + 1).rng ELSE NextRng(r)

----------------------------------------------------------------------------
(* predict_risk, lines 140-163: the feature vector *)

UniformDraw(r, a, b) == [value |-> Uniform(r, a, b), rng |-> AfterRandom(r)]

RandIntDraw(r, a, b) == [value |-> RandInt(r, a, b), rng |-> AfterRandInt(r, a, b)]

\* The else branch of the loop: the value for a feature athlete_data lacks.
Impute(feature, data, r) ==
    CASE feature = "semg_imbalance" -> UniformDraw(r, 5, 30)
      [] feature = "muscle_fatigue" -> UniformDraw(r, 20, 80)
      [] feature = "training_load" -> UniformDraw(r, 30, 90)
      [] feature = "recovery_time" -> UniformDraw(r, 12, 48)
      [] feature = "previous_injuries" ->
            [value |-> Len(InjuryHistory(data)), rng |-> r]
      [] feature = "temperature_variation" -> UniformDraw(r, 1, 15)
      [] feature = "age" -> RandIntDraw(r, 18, 35)
      [] feature = "consecutive_games" -> RandIntDraw(r, 0, 10)
      [] OTHER -> [value |-> 0, rng |-> r]

\* Lines 160-163: random.randint is Python code around getrandbits, so another
\* thread can run between two getrandbits of one randint.  Whether the
\* getrandbits made in state r for a feature athlete_data lacks is repeated:
\* the outcomes there can be.
Repeats(feature, data, r) ==
    IF Has(data, feature) THEN {FALSE}
    ELSE CASE feature = "age" -> {~accepted : accepted \in Accepts(r, 35 - 18 + 1)}
           [] feature = "consecutive_games" ->
                  {~accepted : accepted \in Accepts(r, 10 - 0 + 1)}
           [] OTHER -> {FALSE}

\* Variant: the supplied value is never read, every feature is generated.
FeatureEntryAlwaysImputed(i, data, r) == Impute(feature_names[i], data, r)

\* Variant: supplied values are used only when the dict has as many numeric
\* entries as the schema has features.
FeatureEntryStrict(i, data, r) ==
    IF Has(data, feature_names[i]) /\ Cardinality(DOMAIN data.num) = NFeatures
    THEN [value |-> data.num[feature_names[i]], rng |-> r]
    ELSE Impute(feature_names[i], data, r)

\* One iteration of the loop at line 143, for the feature at position i.
FeatureEntry(i, data, r) ==
    IF Has(data, feature_names[i])
    THEN [value |-> data.num[feature_names[i]], rng |-> r]
    ELSE Impute(feature_names[i], data, r)

RECURSIVE FillFeatures(_, _, _, _)
FillFeatures(i, data, r, features) ==
    IF i > NFeatures THEN [features |-> features, rng |-> r]
    ELSE LET e == FeatureEntry(i, data, r)
         IN  FillFeatures(i + 1, data, e.rng, [features EXCEPT ![i] = e.value])

\* Variant: the supplied values are packed at the front of the vector, in
\* schema order, and nothing is filled in for the missing ones.
BuildFeaturesCompact(data, r) ==
    LET present == SelectSeq(feature_names, LAMBDA f : Has(data, f))
    IN  [ features |-> [i \in 1..NFeatures |->
                          IF i <= Len(present) THEN data.num[present[i]] ELSE 0],
          rng |-> FillFeatures(1, data, r, Zeros).rng ]

\* features = np.zeros(len(self.feature_names)), then the loop
BuildFeatures(data, r) == FillFeatures(1, data, r, Zeros)

----------------------------------------------------------------------------
(* get_feature_importance, lines 194-209 *)

\* zip(self.feature_names, importances)
ImportancePairs(pipeline) ==
    [i \in 1..Min(NFeatures, Len(pipeline.classifier.feature_importances_)) |->
        <<feature_names[i], pipeline.classifier.feature_importances_[i]>>]

\* Position of item in a list sorted by value, descending, after its equals.
RECURSIVE InsertDescending(_, _)
InsertDescending(item, sorted) ==
    IF sorted = << >> THEN <<item>>
    ELSE IF Head(sorted)[2] >= item[2]
         THEN <<Head(sorted)>> \o InsertDescending(item, Tail(sorted))
         ELSE <<item>> \o sorted

\* sorted(items, key=lambda x: x[1], reverse=True): stable
RECURSIVE SortedDescending(_)
SortedDescending(items) ==
    IF items = << >> THEN << >>
    ELSE InsertDescending(items[Len(items)],
                          SortedDescending(SubSeq(items, 1, Len(items) - 1)))

\* Variant: the values are sorted on their own and paired with the names in
\* schema order.
get_feature_importance_misaligned(pipeline) ==
    LET sorted == SortedDescending(ImportancePairs(pipeline))
    IN  [i \in 1..Len(sorted) |-> <<feature_names[i], sorted[i][2]>>]

\* The returned dict, as the list of its (name, importance) items in
\* iteration order.
get_feature_importance(pipeline) == SortedDescending(ImportancePairs(pipeline))

----------------------------------------------------------------------------
(* predict_risk, lines 169-181: the assessment of a probability *)

\* Variant: round(probability * 100), halves going up.
RiskScoreRounded(p) == (2 * p * 100 + ProbDen) \div (2 * ProbDen)

\* int(probability * 100)
RiskScore(p) == (p * 100) \div ProbDen

\* Variant: the High band starts above 60.
RiskLabelExclusive(risk_score) ==
    IF risk_score > 60 THEN "High"
    ELSE IF risk_score >= 30 THEN "Medium" ELSE "Low"

RiskLabel(risk_score) ==
    IF risk_score >= 60 THEN "High"
    ELSE IF risk_score >= 30 THEN "Medium" ELSE "Low"

\* Variant: the abs() is missing.
PredictionConfidenceSigned(p) == ((ProbDen - (2 * p - ProbDen)) * 100) \div ProbDen

\* int((1 - abs(probability - 0.5) * 2) * 100)
PredictionConfidence(p) == ((ProbDen - Abs(2 * p - ProbDen)) * 100) \div ProbDen

Assessment(p, risk_factors) ==
    [ risk_score |-> RiskScore(p),
      risk_label |-> RiskLabel(RiskScore(p)),
      risk_factors |-> risk_factors,
      prediction_confidence |-> PredictionConfidence(p) ]

\* The whole call on a fitted pipeline with the generator in state r.
predict_risk(pipeline, data, r) ==
    LET built == BuildFeatures(data, r)
        probability == PredictProba(pipeline, built.features)
    IN  [ data |-> data,
          model |-> pipeline,
          features |-> built.features,
          probability |-> probability,
          result |-> Assessment(probability, get_feature_importance(pipeline)),
          rng |-> built.rng ]

----------------------------------------------------------------------------
(* save_model, load_model, train_model *)

Absent == [state |-> "absent", content |-> {}]
Corrupt == [state |-> "corrupt", content |-> {}]
Stored(m) == [state |-> "ok", content |-> m]

\* What joblib.dump can do to the file: write it, fail before touching it,
\* or fail after writing part of it.
DumpOutcomes == {"written", "failed", "truncated"}

save_model(m, d, filename, outcome) ==
    IF m # None
    THEN CASE outcome = "written" -> [d EXCEPT ![filename] = Stored(m)]
           [] outcome = "truncated" -> [d EXCEPT ![filename] = Corrupt]
           [] OTHER -> d
    ELSE d

\* Variant: self.model is reset before the file is looked for.
load_model_resetting(m, d, filename) ==
    IF d[filename].state = "ok"
    THEN [model |-> d[filename].content, raised |-> "none"]
    ELSE [ model |-> None,
           raised |-> IF d[filename].state = "absent"
                      THEN "FileNotFoundError" ELSE "UnpicklingError" ]

\* Variant: a missing file is passed over in silence.
load_model_quiet(m, d, filename) ==
    IF d[filename].state = "ok"
    THEN [model |-> d[filename].content, raised |-> "none"]
    ELSE [ model |-> m,
           raised |-> IF d[filename].state = "absent" THEN "none" ELSE "UnpicklingError" ]

load_model(m, d, filename) ==
    IF d[filename].state # "absent"
    THEN IF d[filename].state = "ok"
         THEN [model |-> d[filename].content, raised |-> "none"]
         ELSE [model |-> m, raised |-> "UnpicklingError"]
    ELSE [model |-> m, raised |-> "FileNotFoundError"]

\* np.random.seed(seed): the state the seed puts numpy's generator in.
NpSeed(seed) == seed % RngStates

\* Lines 44-96: the synthetic samples, drawn from numpy's generator starting
\* in state g.  Each sample takes nine draws.
SyntheticData(g) ==
    [ drawn_from |-> g,
      n_samples |-> NSamples,
      generator |-> (g + NSamples * 9) % RngStates ]

\* Lines 102-117: the split and the forest are seeded with random_state, so
\* the fitted pipeline is a function of the samples and of that seed.  The
\* samples drawn after np.random.seed(RandomSeed) fit TrainedPipeline; other
\* samples have other statistics.
Fit(samples, random_state) ==
    IF samples.drawn_from = NpSeed(RandomSeed) /\ random_state = RandomSeed
    THEN TrainedPipeline
    ELSE [TrainedPipeline EXCEPT
            !.scaler.mean_ = [i \in 1..NFeatures |-> @[i] + 1]]

\* Variant: the np.random.seed(42) of line 43 is missing, the samples are
\* drawn from the generator as the caller left it.
train_model_unseeded(m, d, outcome, g) ==
    [ model |-> {Fit(SyntheticData(g), RandomSeed)},
      disk |-> save_model({Fit(SyntheticData(g), RandomSeed)}, d, DefaultFile, outcome),
      nprng |-> SyntheticData(g).generator,
      samples |-> {SyntheticData(g)} ]

\* Variant: the fitted pipeline is not written to the default file.
train_model_unsaved(m, d, outcome, g) ==
    [ model |-> {Fit(SyntheticData(NpSeed(RandomSeed)), RandomSeed)},
      disk |-> d,
      nprng |-> SyntheticData(NpSeed(RandomSeed)).generator,
      samples |-> {SyntheticData(NpSeed(RandomSeed))} ]

\* Variant: a model that is in memory is kept, training only fills None.
train_model_keeping(m, d, outcome, g) ==
    LET fitted == IF m = None
                  THEN {Fit(SyntheticData(NpSeed(RandomSeed)), RandomSeed)}
                  ELSE m
    IN  [ model |-> fitted,
          disk |-> save_model(fitted, d, DefaultFile, outcome),
          nprng |-> SyntheticData(NpSeed(RandomSeed)).generator,
          samples |-> {SyntheticData(NpSeed(RandomSeed))} ]

\* m is self.model and g numpy's generator state when the call starts.
train_model(m, d, outcome, g) ==
    LET samples == SyntheticData(NpSeed(RandomSeed))
        fitted == {Fit(samples, RandomSeed)}
    IN  [ model |-> fitted,
          disk |-> save_model(fitted, d, DefaultFile, outcome),
          nprng |-> samples.generator,
          samples |-> {samples} ]

\* __init__, lines 28-33: load the default artifact, train when that raises.
Constructed(d, outcome, g) ==
    LET loaded == load_model(None, d, DefaultFile)
    IN  IF loaded.raised = "none"
        THEN [model |-> loaded.model, disk |-> d, nprng |-> g, samples |-> {}]
        ELSE train_model(None, d, outcome, g)

----------------------------------------------------------------------------
(* The record of persistence calls *)

Call(op, filename, found, outcome, before, after, exc) ==
    [ op |-> op, filename |-> filename, found |-> found, outcome |-> outcome,
      before |-> before, after |-> after, raised |-> exc,
      generator |-> {}, samples |-> {}, predicted |-> {} ]

\* A call of save_model: predictions is the prediction that was the most
\* recent one when the call was made.
After(call, predictions) == [call EXCEPT !.predicted = predictions]

\* A call that trained: g is numpy's generator state when it started, samples
\* the training set it drew (none when __init__ loaded the artifact).
Training(call, g, samples) ==
    [call EXCEPT !.generator = IF samples = {} THEN {} ELSE {g}, !.samples = samples]

\* The record with one more call, the two most recent ones being kept.
Log(j, call) ==
    IF j = {} THEN {}
    ELSE LET calls == (CHOOSE c \in j : TRUE) \o <<call>>
         IN  {IF Len(calls) > 2 THEN Tail(calls) ELSE calls}

NoThreads == [t \in {} |-> 0]

----------------------------------------------------------------------------
(* Inputs of predict_risk *)

LowValues ==
    [ semg_imbalance |-> 5, muscle_fatigue |-> 20, training_load |-> 30,
      recovery_time |-> 48, previous_injuries |-> 0, temperature_variation |-> 2,
      age |-> 20, consecutive_games |-> 1,
      id |-> 1, height |-> 180, weight |-> 75, risk_score |-> 25 ]

HighValues ==
    [ semg_imbalance |-> 40, muscle_fatigue |-> 90, training_load |-> 95,
      recovery_time |-> 6, previous_injuries |-> 4, temperature_variation |-> 25,
      age |-> 33, consecutive_games |-> 12,
      id |-> 4, height |-> 171, weight |-> 64, risk_score |-> 80 ]

SchemaKeys == {feature_names[i] : i \in 1..NFeatures}
OtherKeys == {"id", "height", "weight", "risk_score"}

Restrict(f, keys) == [k \in keys |-> f[k]]

TwoInjuries == {<<"Hamstring strain (2021)", "Ankle sprain (2020)">>}

\* The inputs the lifecycle specification calls predict_risk with.
SampleInputs ==
    { AthleteData(Restrict(LowValues, SchemaKeys), {}),
      AthleteData(Restrict(HighValues, SchemaKeys), TwoInjuries),
      AthleteData(Restrict(LowValues, SchemaKeys \cup OtherKeys), {}),
      AthleteData(Restrict(HighValues, OtherKeys \cup {"age"}), TwoInjuries),
      AthleteData(Restrict(HighValues, SchemaKeys \ {"previous_injuries"}), TwoInjuries),
      AthleteData(Restrict(HighValues, SchemaKeys \ {"previous_injuries"}), {}),
      AthleteData(Restrict(LowValues, SchemaKeys \ {"semg_imbalance"}), {<< >>}) }

\* The inputs the persistence and training specifications call predict_risk
\* with: every schema key is supplied.
PersistInputs ==
    { AthleteData(Restrict(LowValues, SchemaKeys), {}),
      AthleteData(Restrict(HighValues, SchemaKeys), TwoInjuries) }

\* The fixed test set predictions are compared on around a save and a load:
\* the inputs with every schema key and one without "semg_imbalance".
RoundTripInputs ==
    PersistInputs
        \cup { AthleteData(Restrict(LowValues, SchemaKeys \ {"semg_imbalance"}), {}) }

\* An input with the given subset of the schema keys, from one value table.
SchemaInput(values, keys) == AthleteData(Restrict(values, keys), {})

----------------------------------------------------------------------------
(* DataProcessor.filter_semg.  A normalized cutoff is the exact quotient     *)
(* cut / (0.5 * sample_rate), kept as num / den.  The design returned by     *)
(* scipy.signal.butter and the signal returned by scipy.signal.filtfilt are  *)
(* not computed: a filtered signal is named by the design and the input it   *)
(* came from, and has the input's length.                                    *)

\* DataProcessor.__init__
DataProcessor ==
    [ sample_rate |-> 1000, butterworth_order |-> 4, lowcut |-> 20, highcut |-> 450 ]

\* cut / nyquist with nyquist = 0.5 * sample_rate
Normalized(cut, sample_rate) == [num |-> 2 * cut, den |-> sample_rate]

Positive(q) == q.num * q.den > 0

BelowOne(q) == IF q.den > 0 THEN q.num < q.den ELSE q.num > q.den

\* a < b for two quotients over the same denominator
Below(a, b) == IF a.den > 0 THEN a.num < b.num ELSE a.num > b.num

\* scipy.signal.butter(order, [low, high], btype='band'): the ways the call
\* can end.  A critical frequency outside (0, 1) and a negative order are
\* rejected with ValueError.  Cutoffs in (0, 1) that are not in increasing
\* order are rejected by the releases of scipy that compare them and designed
\* into a filter by the others; an order of zero is designed into the
\* pass-everything filter b = a = [1], which filtfilt may or may not accept.
Butter(order, low, high) ==
    IF order < 0 \/ ~Positive(low) \/ ~BelowOne(low) \/ ~Positive(high) \/ ~BelowOne(high)
    THEN {"ValueError"}
    ELSE IF ~Below(low, high) \/ order = 0
         THEN {"ValueError", "none"}
         ELSE {"none"}

\* scipy.signal.filtfilt(b, a, x) pads x by 3 * max(len(a), len(b)) samples at
\* each end and rejects an x that is not longer than that; a band-pass design
\* of the given order has 2 * order + 1 coefficients.
PadLen(order) == 3 * (2 * order + 1)

Filtfilt(order, semg_data) ==
    IF Len(semg_data) <= PadLen(order) THEN "ValueError" ELSE "none"

\* The set of ways filter_semg(semg_data) can end on a processor with fields p.
filter_semg(p, semg_data) ==
    IF p.sample_rate = 0
    THEN { [raised |-> "ZeroDivisionError", low |-> {}, high |-> {}, returned |-> {}] }
    ELSE LET low == Normalized(p.lowcut, p.sample_rate)
             high == Normalized(p.highcut, p.sample_rate)
             ends == { IF design = "none"
                       THEN Filtfilt(p.butterworth_order, semg_data) ELSE design :
                       design \in Butter(p.butterworth_order, low, high) }
         IN  { [ raised |-> exc, low |-> {low}, high |-> {high},
                 returned |-> IF exc = "none"
                              THEN {[ samples |-> Len(semg_data), of |-> semg_data,
                                      order |-> p.butterworth_order,
                                      band |-> <<low, high>> ]}
                              ELSE {} ] : exc \in ends }

SampleRates == {0, 800, 1000}
Orders == {-1, 0, 1, 4}
Cutoffs == {0, 20, 450, 500}
SemgWindows ==
    { <<1, -1, 1, -1>>, [i \in 1..30 |-> IF i % 2 = 0 THEN 1 ELSE -1] }

----------------------------------------------------------------------------
(* feature_extraction.  An EMG window is a 2-D array [samples x channels];   *)
(* heart-rate and temperature windows are lists.  Samples are integers.  A   *)
(* feature is the exact number num / den, or its square root when root is    *)
(* TRUE; den = 0 is the NaN that numpy's mean of an empty array gives.       *)

MaxSamples == 4     \* longest single-channel signal drawn
MaxChannels == 2    \* most channels of a drawn EMG window

Number(n) == [num |-> n, den |-> 1, root |-> FALSE]

Ratio(n, d) == [num |-> n, den |-> d, root |-> FALSE]

Root(n, d) == [num |-> n, den |-> d, root |-> TRUE]

\* emg_window[:, ch] is Column(w, ch + 1)
Window(samples, columns) ==
    [ samples |-> samples, channels |-> Len(columns),
      at |-> [i \in 1..samples |-> [ch \in 1..Len(columns) |-> columns[ch][i]]] ]

Column(w, ch) == [i \in 1..w.samples |-> w.at[i][ch]]

\* np.sign
Sign(x) == IF x > 0 THEN 1 ELSE IF x < 0 THEN -1 ELSE 0

\* np.diff
Diff(x) == [i \in 1..(Len(x) - 1) |-> x[i + 1] - x[i]]

\* np.sum(np.abs(x))
SumAbs(x) == SumSeq([i \in 1..Len(x) |-> Abs(x[i])])

\* np.sum(x != 0)
CountNonZero(x) == SumSeq([i \in 1..Len(x) |-> IF x[i] # 0 THEN 1 ELSE 0])

\* np.sqrt(np.mean(signal**2))
RootMeanSquare(signal) ==
    Root(SumSeq([i \in 1..Len(signal) |-> signal[i] * signal[i]]), Len(signal))

\* np.mean(np.abs(signal))
MeanAbsoluteValue(signal) == Ratio(SumAbs(signal), Len(signal))

\* np.sum(np.abs(signal))
IntegratedEmg(signal) == Number(SumAbs(signal))

\* np.sum(np.abs(np.diff(signal)))
WaveformLength(signal) == Number(SumAbs(Diff(signal)))

\* Variant: a crossing is a pair of neighbours of opposite sign.
ZeroCrossingsOpposite(signal) ==
    Number(SumSeq([i \in 1..(Len(signal) - 1) |->
                      IF signal[i] * signal[i + 1] < 0 THEN 1 ELSE 0]))

\* Variant: a crossing is a pair of neighbours whose product is not positive.
ZeroCrossingsNonPositive(signal) ==
    Number(SumSeq([i \in 1..(Len(signal) - 1) |->
                      IF signal[i] * signal[i + 1] <= 0 THEN 1 ELSE 0]))

\* np.sum(np.diff(np.sign(signal)) != 0)
ZeroCrossings(signal) ==
    Number(CountNonZero(Diff([i \in 1..Len(signal) |-> Sign(signal[i])])))

ChannelFeatures(signal) ==
    << RootMeanSquare(signal), MeanAbsoluteValue(signal), IntegratedEmg(signal),
       WaveformLength(signal), ZeroCrossings(signal) >>

RECURSIVE ExtendChannels(_, _, _)
ExtendChannels(emg_window, ch, features) ==
    IF ch > emg_window.channels
    THEN features
    ELSE ExtendChannels(emg_window, ch + 1,
                        features \o ChannelFeatures(Column(emg_window, ch)))

extract_emg_features(emg_window) == ExtendChannels(emg_window, 1, << >>)

\* np.mean
Mean(x) == Ratio(SumSeq(x), Len(x))

\* np.std: the population standard deviation, sqrt(mean(|x - mean(x)|^2))
Std(x) ==
    Root(Len(x) * SumSeq([i \in 1..Len(x) |-> x[i] * x[i]]) - SumSeq(x) * SumSeq(x),
         Len(x) * Len(x))

\* Variant: the difference is taken only from three samples on.
DeltaFromThree(x) == Number(IF Len(x) > 2 THEN x[Len(x)] - x[1] ELSE 0)

\* array[-1] - array[0] if len(array) > 1 else 0
Delta(x) == Number(IF Len(x) > 1 THEN x[Len(x)] - x[1] ELSE 0)

extract_hr_features(hr_window) == << Mean(hr_window), Std(hr_window), Delta(hr_window) >>

extract_temp_features(temp_window) == << Mean(temp_window), Delta(temp_window) >>

\* Variant: the temperature features are put before the heart-rate features.
extract_all_features_temp_first(emg_window, hr_window, temp_window) ==
    extract_emg_features(emg_window) \o extract_temp_features(temp_window)
        \o extract_hr_features(hr_window)

extract_all_features(emg_window, hr_window, temp_window) ==
    extract_emg_features(emg_window) \o extract_hr_features(hr_window)
        \o extract_temp_features(temp_window)

\* Inputs.  Single-channel signals of every length up to MaxSamples, and
\* windows of up to MaxChannels channels put together from a few signals.
SampleValues == {-1, 0, 1}

Signals == UNION { [1..n -> SampleValues] : n \in 0..MaxSamples }

ChannelSignals ==
    { <<1, -1, 1, -1>>, <<2, 0, -2, 1>>, <<0, 3, 3, 0>> }

EmgWindows ==
    { Window(4, columns) :
        columns \in UNION { [1..c -> ChannelSignals] : c \in 0..MaxChannels } }

HrWindows == { << >>, <<60>>, <<70, 60, 65>> }

\* tenths of a degree
TempWindows == { <<365>>, <<365, 372, 370>> }

\* Heart-rate and temperature windows of every length up to MaxSamples
SeriesValues == {60, 65}

SeriesWindows == UNION { [1..n -> SeriesValues] : n \in 0..MaxSamples }

\* x with a zero-valued sample put in after its first k samples
InsertZero(x, k) ==
    [i \in 1..(Len(x) + 1) |-> IF i <= k THEN x[i] ELSE IF i = k + 1 THEN 0 ELSE x[i - 1]]

----------------------------------------------------------------------------
(* Binary floating point.  numpy and Python compute in IEEE 754 doubles:     *)
(* every sum, product, quotient and square root is the exact result rounded  *)
(* to the nearest representable number, ties to the even mantissa.  A float  *)
(* here is m * 2^e with the mantissa m of MantissaBits bits (53 in a double) *)
(* and e unbounded, so there is rounding but no overflow or underflow.       *)

MantissaBits == 6

Pow2(k) == 2 ^ k

FZero == [m |-> 0, e |-> 0]

\* The float nearest to (num / den) * 2^e, for num >= 0 and den > 0.
RECURSIVE FRound(_, _, _)
FRound(num, den, e) ==
    IF num = 0 THEN FZero
    ELSE IF num >= den * Pow2(MantissaBits) THEN FRound(num, 2 * den, e + 1)
    ELSE IF num < den * Pow2(MantissaBits - 1) THEN FRound(2 * num, den, e - 1)
    ELSE LET q == num \div den
             rest == num - q * den
             up == 2 * rest > den \/ (2 * rest = den /\ q % 2 = 1)
             m == IF up THEN q + 1 ELSE q
         IN  IF m = Pow2(MantissaBits)
             THEN [m |-> Pow2(MantissaBits - 1), e |-> e + 1]
             ELSE [m |-> m, e |-> e]

FNeg(a) == [a EXCEPT !.m = -@]

FAbs(a) == [a EXCEPT !.m = Abs(@)]

FSigned(num, den, e) ==
    IF num < 0 THEN FNeg(FRound(-num, den, e)) ELSE FRound(num, den, e)

\* float(n) of a Python int
FInt(n) == FSigned(n, 1, 0)

FAdd(a, b) ==
    IF a.m = 0 THEN b
    ELSE IF b.m = 0 THEN a
    ELSE LET e == Min(a.e, b.e)
         IN  FSigned(a.m * Pow2(a.e - e) + b.m * Pow2(b.e - e), 1, e)

FSub(a, b) == FAdd(a, FNeg(b))

FMul(a, b) == FSigned(a.m * b.m, 1, a.e + b.e)

\* a / b for b # 0
FDiv(a, b) ==
    IF (a.m < 0) # (b.m < 0)
    THEN FNeg(FRound(Abs(a.m), Abs(b.m), a.e - b.e))
    ELSE FRound(Abs(a.m), Abs(b.m), a.e - b.e)

\* The float nearest to sqrt(n) * 2^h, for an integer n > 0.
RECURSIVE FSqrtScaled(_, _)
FSqrtScaled(n, h) ==
    IF n < Pow2(2 * MantissaBits - 2) THEN FSqrtScaled(4 * n, h - 1)
    ELSE LET r == CHOOSE r \in Pow2(MantissaBits - 1)..Pow2(MantissaBits) :
                     r * r <= n /\ n < (r + 1) * (r + 1)
             m == IF n > r * r + r THEN r + 1 ELSE r
         IN  IF m = Pow2(MantissaBits)
             THEN [m |-> Pow2(MantissaBits - 1), e |-> h + 1]
             ELSE [m |-> m, e |-> h]

\* np.sqrt(a) for a >= 0
FSqrt(a) ==
    IF a.m = 0 THEN FZero
    ELSE IF a.e % 2 = 0 THEN FSqrtScaled(a.m, a.e \div 2)
    ELSE FSqrtScaled(2 * a.m, (a.e - 1) \div 2)

FLess(a, b) == FSub(a, b).m < 0

\* min(a, b) and max(a, b) of Python: the first argument unless the second
\* is smaller (greater).
FMin(a, b) == IF FLess(b, a) THEN b ELSE a

FMax(a, b) == IF FLess(a, b) THEN b ELSE a

\* res = 0.; for i in range(n): res += a[i], from position i on
RECURSIVE AddInTurn(_, _, _)
AddInTurn(x, i, res) ==
    IF i > Len(x) THEN res ELSE AddInTurn(x, i + 1, FAdd(res, x[i]))

\* One of the eight running sums of a block: x[j], x[j + 8], x[j + 16], ...
\* up to position last.
RECURSIVE AddEighth(_, _, _, _)
AddEighth(x, i, last, res) ==
    IF i > last THEN res ELSE AddEighth(x, i + 8, last, FAdd(res, x[i]))

\* numpy's pairwise sum of the n floats of x that follow position from:
\* fewer than eight are added in turn, up to 128 in eight running sums that
\* are then added in pairs, more in two halves.
RECURSIVE PairwiseSum(_, _, _)
PairwiseSum(x, from, n) ==
    IF n < 8
    THEN AddInTurn(SubSeq(x, from + 1, from + n), 1, FZero)
    ELSE IF n <= 128
    THEN LET last == from + n - (n % 8)
             r == [j \in 1..8 |-> AddEighth(x, from + j + 8, last, x[from + j])]
         IN  AddInTurn(SubSeq(x, last + 1, from + n), 1,
                       FAdd(FAdd(FAdd(r[1], r[2]), FAdd(r[3], r[4])),
                            FAdd(FAdd(r[5], r[6]), FAdd(r[7], r[8]))))
    ELSE LET half == (n \div 2) - ((n \div 2) % 8)
         IN  FAdd(PairwiseSum(x, from, half), PairwiseSum(x, from + half, n - half))

\* np.sum
np_sum(x) == PairwiseSum(x, 0, Len(x))

\* np.mean of a non-empty array: the sum divided by the number of samples
np_mean(x) == FDiv(np_sum(x), FInt(Len(x)))

----------------------------------------------------------------------------
(* extract_emg_features, lines 11-15, on one channel of float samples *)

\* Variant: the square root is left out.
float_rms_unrooted(signal) ==
    np_mean([i \in 1..Len(signal) |-> FMul(signal[i], signal[i])])

\* np.sqrt(np.mean(signal**2))
float_rms(signal) == FSqrt(np_mean([i \in 1..Len(signal) |-> FMul(signal[i], signal[i])]))

\* np.mean(np.abs(signal))
float_mav(signal) == np_mean([i \in 1..Len(signal) |-> FAbs(signal[i])])

\* np.sum(np.abs(signal))
float_iemg(signal) == np_sum([i \in 1..Len(signal) |-> FAbs(signal[i])])

\* np.sum(np.abs(np.diff(signal)))
float_wl(signal) ==
    np_sum([i \in 1..(Len(signal) - 1) |-> FAbs(FSub(signal[i + 1], signal[i]))])

\* np.sum(np.diff(np.sign(signal)) != 0)
float_zc(signal) ==
    FInt(CountNonZero(Diff([i \in 1..Len(signal) |-> Sign(signal[i].m)])))

\* Floats in [1, 4) and their negatives
FloatSamples ==
    { [m |-> sign * m, e |-> e] :
        sign \in {-1, 1},
        m \in Pow2(MantissaBits - 1)..(Pow2(MantissaBits) - 1),
        e \in {1 - MantissaBits, 2 - MantissaBits} }

\* Channels held at one value, and channels that alternate
FloatSignals ==
    { [i \in 1..n |-> c] : n \in 1..MaxSamples, c \in FloatSamples }
        \cup { <<c, FNeg(c), c>> : c \in FloatSamples }

----------------------------------------------------------------------------
(* DataProcessor.calculate_muscle_fatigue.  scipy.signal.welch is not        *)
(* computed: its result, the frequencies f and the power spectrum Pxx, is    *)
(* what the rest of the function is applied to.                              *)

nperseg == 256

\* the one-sided spectrum of a segment of nperseg samples
NBins == nperseg \div 2 + 1

\* f[k] = k * sample_rate / nperseg, k counted from 0
WelchFrequencies(sample_rate) ==
    [k \in 1..NBins |-> FRound((k - 1) * sample_rate, nperseg, 0)]

\* np.cumsum: out[k] = out[k - 1] + x[k], the floats added in turn.
\* CumulativeFrom gives out[lo..hi] from carry = out[lo - 1].
RECURSIVE CumulativeFrom(_, _, _, _)
CumulativeFrom(x, lo, hi, carry) ==
    IF lo = hi THEN <<FAdd(carry, x[lo])>>
    ELSE LET mid == (lo + hi) \div 2
             head == CumulativeFrom(x, lo, mid, carry)
         IN  head \o CumulativeFrom(x, mid + 1, hi, head[Len(head)])

np_cumsum(x) == IF x = << >> THEN << >> ELSE CumulativeFrom(x, 1, Len(x), FZero)

\* np.argmax of an array of booleans, counted from 1: the first True, and the
\* first entry when none is True.
np_argmax(b) ==
    IF \E k \in 1..Len(b) : b[k]
    THEN CHOOSE k \in 1..Len(b) : b[k] /\ \A j \in 1..(k - 1) : ~b[j]
    ELSE 1

\* Variant: the cumulative power has to exceed half of the total.
median_freq_idx_exceeding(Pxx) ==
    LET total_power == np_sum(Pxx)
        cumulative_power == np_cumsum(Pxx)
        half == FDiv(total_power, FInt(2))
    IN  np_argmax([k \in 1..Len(Pxx) |-> FLess(half, cumulative_power[k])])

\* lines 72-74
median_freq_idx(Pxx) ==
    LET total_power == np_sum(Pxx)
        cumulative_power == np_cumsum(Pxx)
        half == FDiv(total_power, FInt(2))
    IN  np_argmax([k \in 1..Len(Pxx) |-> ~FLess(cumulative_power[k], half)])

\* Variant: the index is not clamped.
fatigue_index_unclamped(median_freq) ==
    FMul(FInt(100), FSub(FInt(1), FDiv(FSub(median_freq, FInt(30)), FInt(90))))

\* lines 79-80
fatigue_index(median_freq) ==
    FMax(FInt(0),
         FMin(FInt(100),
              FMul(FInt(100),
                   FSub(FInt(1), FDiv(FSub(median_freq, FInt(30)), FInt(90))))))

\* Power spectra: no power, all power in one bin, power in two bins.
ZeroSpectrum == [j \in 1..NBins |-> FZero]

OneBin(k, power) == [j \in 1..NBins |-> IF j = k THEN FInt(power) ELSE FZero]

TwoBins(k, low, high) ==
    [j \in 1..NBins |-> IF j = k THEN FInt(low)
                        ELSE IF j = k + 8 THEN FInt(high) ELSE FZero]

SplitSpectra ==
    { TwoBins(k, w[1], w[2]) :
        k \in {1, 8, 16, 24, 32}, w \in {<<1, 1>>, <<1, 2>>, <<2, 1>>} }

\* Pairs of spectra for two calls in a row: the second has its power one bin
\* higher than the first, or both have power in two bins, or the first has
\* no power.
SpectraPairs ==
    { <<OneBin(k, 3), OneBin(k + 1, 3)>> : k \in 1..(NBins - 1) }
        \cup (SplitSpectra \X SplitSpectra)
        \cup { <<ZeroSpectrum, b>> : b \in SplitSpectra }

----------------------------------------------------------------------------
(* DataProcessor.calculate_rms and calculate_muscle_imbalance, in floats.    *)
(* A result is the value returned or the exception raised.                   *)

window_size == 100

Returns(value) == [raised |-> "none", value |-> value]

Raises(exception) == [raised |-> exception, value |-> << >>]

\* lines 53-56.  sliding_window_view refuses a window longer than the signal.
calculate_rms(semg_data) ==
    LET squared == [i \in 1..Len(semg_data) |-> FMul(semg_data[i], semg_data[i])]
    IN  IF Len(semg_data) < window_size
        THEN Raises("ValueError")
        ELSE Returns([i \in 1..(Len(semg_data) - window_size + 1) |->
                        FSqrt(np_mean(SubSeq(squared, i, i + window_size - 1)))])

\* lines 99-103
imbalance(left_rms, right_rms) ==
    LET total == FAdd(left_rms, right_rms)
    IN  IF FLess(FZero, total)
        THEN FDiv(FMul(FInt(100), FAbs(FSub(left_rms, right_rms))), total)
        ELSE FZero

\* lines 95-105: locals are left_rms and right_rms
calculate_muscle_imbalance(left_semg, right_semg) ==
    LET left == calculate_rms(left_semg)
        right == calculate_rms(right_semg)
    IN  IF left.raised # "none" THEN [raised |-> left.raised, locals |-> << >>, value |-> << >>]
        ELSE IF right.raised # "none"
             THEN [raised |-> right.raised, locals |-> << >>, value |-> << >>]
        ELSE LET left_rms == np_mean(left.value)
                 right_rms == np_mean(right.value)
             IN  [raised |-> "none",
                  locals |-> <<left_rms, right_rms>>,
                  value |-> <<imbalance(left_rms, right_rms)>>]

\* Signals: silence, and one sample of activity followed by silence, so that
\* a window's mean square is one square divided by the window size whatever
\* order the squares are added in.
Silence(n) == [i \in 1..n |-> FZero]

Impulse(x, n) == [i \in 1..n |-> IF i = 1 THEN x ELSE FZero]

\* Amplitudes of the first side: every mantissa at two exponents.
Amplitudes ==
    { [m |-> m, e |-> e] :
        m \in Pow2(MantissaBits - 1)..(Pow2(MantissaBits) - 1),
        e \in {1 - MantissaBits, 2 - MantissaBits} }

\* The second side: silent, or an impulse of 1, of 3/2 or of 2^-12.
OtherSides ==
    { Silence(window_size),
      Impulse(FInt(1), window_size),
      Impulse(FRound(3, 2, 0), window_size),
      Impulse(FRound(1, 1, -12), window_size) }

\* Pairs of signals of one window each, among them opposite and identical
\* signals; pairs of a longer and of a shorter
\* signal; a pair of silent signals.
SignalPairs ==
    { <<Impulse(x, window_size), other>> : x \in Amplitudes, other \in OtherSides }
        \cup { <<Impulse(x, window_size), Impulse(FNeg(x), window_size)>> : x \in Amplitudes }
        \cup { <<Impulse(x, window_size), Impulse(x, window_size)>> : x \in Amplitudes }
        \cup { <<Impulse(FInt(1), window_size + 1), Impulse(FInt(3), window_size)>>,
               <<Impulse(FInt(1), window_size - 1), Impulse(FInt(3), window_size)>>,
               <<Silence(window_size), Silence(window_size + 1)>> }

----------------------------------------------------------------------------
(* The data provider: get_athletes_list, get_athlete_data, get_team_summary  *)
(* and get_historical_data of DataProcessor, and utils.risk_color.  Values   *)
(* drawn with random.uniform are whole numbers here, temperatures in tenths  *)
(* of a degree.                                                              *)

\* get_athletes_list
get_athletes_list ==
    << [id |-> 1, name |-> "Khalid Ahmed", team |-> "Team A", position |-> "Forward"],
       [id |-> 2, name |-> "Sarah Wilson", team |-> "Team A", position |-> "Midfielder"],
       [id |-> 3, name |-> "Ahmed Hassan", team |-> "Team B", position |-> "Defender"],
       [id |-> 4, name |-> "Maria Rodriguez", team |-> "Team B", position |-> "Forward"],
       [id |-> 5, name |-> "James Smith", team |-> "Team A", position |-> "Goalkeeper"],
       [id |-> 6, name |-> "Layla Mahmoud", team |-> "Team C", position |-> "Midfielder"],
       [id |-> 7, name |-> "David Chen", team |-> "Team C", position |-> "Defender"] >>

\* the ids of the roster
AthleteIds == {get_athletes_list[k].id : k \in DOMAIN get_athletes_list}

\* next((a for a in athletes if a["id"] == athlete_id), None)
FindAthlete(athlete_id) ==
    {get_athletes_list[k] : k \in {j \in DOMAIN get_athletes_list :
                                      get_athletes_list[j].id = athlete_id}}

\* utils.risk_color
risk_color(risk_score) ==
    IF risk_score < 30 THEN "#4CAF50"
    ELSE IF risk_score < 60 THEN "#FFC107"
    ELSE "#F44336"

\* Variant: a score of 30 is still green.
athlete_risk_color_inclusive(risk_score) ==
    IF risk_score <= 30 THEN "green"
    ELSE IF risk_score < 60 THEN "yellow"
    ELSE "red"

\* get_athlete_data, lines 187-192
athlete_risk_color(risk_score) ==
    IF risk_score < 30 THEN "green"
    ELSE IF risk_score < 60 THEN "yellow"
    ELSE "red"

\* get_athlete_data, lines 195-212: the bounds of the five randint calls
muscle_draws(risk_score) ==
    IF risk_score > 60
    THEN << <<0, 10>>, <<10, 25>>, <<15, 30>>, <<5, 15>>, <<20, 40>> >>
    ELSE << <<-10, 15>>, <<-15, 10>>, <<-20, 5>>, <<-15, 10>>, <<-25, 0>> >>

\* get_athlete_data, lines 195-212: d holds the generator's state at each of
\* the five draws.
muscle_risks(risk_score, d) ==
    LET bounds == muscle_draws(risk_score)
        drawn == [k \in 1..5 |-> RandInt(d[k], bounds[k][1], bounds[k][2])]
    IN  IF risk_score > 60
        THEN [ hamstring |-> Min(95, risk_score + drawn[1]),
               quadriceps |-> Max(30, risk_score - drawn[2]),
               calf |-> Max(20, risk_score - drawn[3]),
               lower_back |-> Max(35, risk_score - drawn[4]),
               shoulder |-> Max(15, risk_score - drawn[5]) ]
        ELSE [ hamstring |-> Min(75, risk_score + drawn[1]),
               quadriceps |-> Max(10, risk_score + drawn[2]),
               calf |-> Max(10, risk_score + drawn[3]),
               lower_back |-> Max(10, risk_score + drawn[4]),
               shoulder |-> Max(5, risk_score + drawn[5]) ]

\* get_athlete_data, lines 170-212: the dict built for an athlete of the
\* roster; draws holds the generator's state at each of the ten draws.
athlete_record(athlete, draws) ==
    LET risk_score == RandInt(draws[1], 10, 90)
    IN  [ id |-> athlete.id,
          name |-> athlete.name,
          team |-> athlete.team,
          position |-> athlete.position,
          age |-> RandInt(draws[2], 18, 35),
          height |-> RandInt(draws[3], 160, 200),
          weight |-> RandInt(draws[4], 60, 100),
          injury_history |-> IF RandomAboveHalf(draws[5])
                             THEN <<"Hamstring strain (2021)", "Ankle sprain (2020)">>
                             ELSE << >>,
          risk_score |-> risk_score,
          risk_color |-> athlete_risk_color(risk_score),
          muscle_risks |-> muscle_risks(risk_score, SubSeq(draws, 6, 10)) ]

\* get_athlete_data, lines 176-212: the bounds of the k-th draw of the call,
\* a randint for every k but 5
draw_bounds(k, risk_score) ==
    CASE k = 1 -> <<10, 90>>
      [] k = 2 -> <<18, 35>>
      [] k = 3 -> <<160, 200>>
      [] k = 4 -> <<60, 100>>
      [] OTHER -> muscle_draws(risk_score)[k - 5]

\* get_athlete_data, lines 176-212: the generator after the latest of the
\* draws made, made holding the state it was in at each of them.
AfterDraw(made) ==
    LET k == Len(made)
        r == made[k]
        bounds == draw_bounds(k, RandInt(made[1], 10, 90))
    IN  IF k = 5 THEN AfterRandom(r) ELSE AfterRandInt(r, bounds[1], bounds[2])

\* The states of the generator at the ten draws when nothing else draws in
\* between: made holds those of the draws made, the next is made in state r.
RECURSIVE DrawStates(_, _)
DrawStates(made, r) ==
    IF Len(made) = 10 THEN made
    ELSE DrawStates(Append(made, r), AfterDraw(Append(made, r)))

\* get_athlete_data, lines 170-212, run without interruption for each athlete
\* of the roster: the dict drawn after random.seed(athlete_id).
roster_data ==
    [athlete_id \in AthleteIds |->
        {athlete_record(athlete, DrawStates(<< >>, SeedState(athlete_id))) :
            athlete \in FindAthlete(athlete_id)}]

\* get_athlete_data run without interruption: None for an id that is not on
\* the roster, else the dict drawn after random.seed(athlete_id).
get_athlete_data(athlete_id) ==
    IF FindAthlete(athlete_id) = {} THEN None ELSE roster_data[athlete_id]

\* get_team_summary, lines 303-305: the conditions of the three counts
CountsAsHigh(score) == score >= 60
CountsAsMedium(score) == 30 <= score /\ score < 60
CountsAsLow(score) == score < 30

\* the counts a score is added to
TeamBands(score) ==
    {band \in {"high", "medium", "low"} :
        \/ band = "high" /\ CountsAsHigh(score)
        \/ band = "medium" /\ CountsAsMedium(score)
        \/ band = "low" /\ CountsAsLow(score)}

\* get_team_summary: avg_risk_score is the quotient num / den, teams the
\* names in the list, whose order is not fixed.
get_team_summary ==
    LET athletes == get_athletes_list
        athlete_data == [k \in DOMAIN athletes |->
                            CHOOSE data \in get_athlete_data(athletes[k].id) : TRUE]
        risk_scores == [k \in DOMAIN athletes |-> athlete_data[k].risk_score]
        scored == DOMAIN risk_scores
    IN  [ total_athletes |-> Len(athletes),
          avg_risk_score |-> [num |-> SumSeq(risk_scores), den |-> Len(risk_scores)],
          high_risk_count |-> Cardinality({i \in scored : CountsAsHigh(risk_scores[i])}),
          medium_risk_count |-> Cardinality({i \in scored : CountsAsMedium(risk_scores[i])}),
          low_risk_count |-> Cardinality({i \in scored : CountsAsLow(risk_scores[i])}),
          teams |-> {athletes[k].team : k \in DOMAIN athletes},
          risk_scores |-> risk_scores ]

\* Lists of risk scores: the first is any score from 0 to 100, the others
\* follow it at a fixed distance.
ScoreLists ==
    { [i \in 1..Len(get_athletes_list) |-> (first + (i - 1) * step) % 101] :
        first \in 0..100, step \in {0, 1, 15, 30} }

\* get_historical_data: the longest history asked for
MaxDays == 5

Metrics == {"risk_score", "semg_imbalance", "temperature", "training_load", "other"}

\* What a call of get_historical_data ends with: the exception raised or the
\* two columns of the DataFrame, and the state it leaves the generator in.
\* A date is counted in days from the moment of the call.
History(exception, days, values, r) ==
    [ raised |-> exception,
      dates |-> IF exception = "none" THEN [i \in 1..days |-> i - 1 - days] ELSE << >>,
      values |-> IF exception = "none" THEN values ELSE << >>,
      rng |-> r % RngStates ]

\* lines 241-245: the random walk, values holding the first k of them
RECURSIVE RiskWalk(_, _, _)
RiskWalk(values, days, r) ==
    IF Len(values) >= days THEN values
    ELSE RiskWalk(Append(values,
                         Max(5, Min(95, values[Len(values)]
                                          + Uniform((r + Len(values)) % RngStates, -5, 7)))),
                  days, r)

\* lines 251-253: the spikes still to add, the generator in state r
RECURSIVE AddSpikes(_, _, _)
AddSpikes(values, left, r) ==
    IF left = 0 THEN values
    ELSE AddSpikes([values EXCEPT ![RandInt(r % RngStates, 0, Len(values) - 1) + 1] =
                        Uniform((r + 1) % RngStates, 25, 40)],
                   left - 1, r + 2)

\* lines 262-263: the days of fever from position i (counted from 0) on
RECURSIVE AddFever(_, _, _, _, _)
AddFever(values, i, last, base_temp, r) ==
    IF i >= last THEN values
    ELSE AddFever([values EXCEPT ![i + 1] = base_temp + Uniform(r % RngStates, 10, 15)],
                  i + 1, last, base_temp, r + 1)

\* get_historical_data with the generator in state r, seeded from the
\* system as get_athlete_data leaves it; reseeded is the state
\* random.seed() of get_athlete_data takes from the system.  pandas refuses
\* columns of different lengths, randint an empty range, and None has no
\* "risk_score".
get_historical_data(athlete_id, metric, days, r, reseeded) ==
    CASE metric = "risk_score" ->
            IF days < 1 THEN History("ValueError", days, << >>, r + 1)
            ELSE History("none", days, RiskWalk(<<RandInt(r, 20, 40)>>, days, r), r + days)
      [] metric = "semg_imbalance" ->
            IF days < 1 THEN History("ValueError", days, << >>, r)
            ELSE History("none", days,
                         AddSpikes([i \in 1..days |-> Uniform((r + i - 1) % RngStates, 5, 20)],
                                   3, r + days),
                         r + days + 6)
      [] metric = "temperature" ->
            LET base_temp == 365 + Uniform(r, -2, 2)
                values == [i \in 1..days |-> base_temp + Uniform((r + i) % RngStates, -3, 3)]
                athlete_data == get_athlete_data(athlete_id)
            IN  IF athlete_data = None
                THEN History("TypeError", days, << >>, r + 1 + days)
                ELSE IF (CHOOSE data \in athlete_data : TRUE).risk_score > 70
                THEN IF days < 5 THEN History("ValueError", days, << >>, reseeded)
                     ELSE LET fever_start == RandInt(reseeded, 0, days - 5)
                              last == Min(fever_start + 3, days)
                          IN  History("none", days,
                                      AddFever(values, fever_start, last, base_temp,
                                               reseeded + 1),
                                      reseeded + 1 + (last - fever_start))
                ELSE History("none", days, values, reseeded)
      [] metric = "training_load" ->
            History("none", days,
                    [i \in 1..days |-> IF (i - 1) % 7 \in {0, 6}
                                      THEN Uniform((r + i - 1) % RngStates, 10, 30)
                                      ELSE Uniform((r + i - 1) % RngStates, 50, 90)],
                    r + days)
      [] OTHER ->
            History("none", days,
                    [i \in 1..days |-> Uniform((r + i - 1) % RngStates, 0, 100)],
                    r + days)

----------------------------------------------------------------------------
(* The state machine *)

InitClassifier(artifacts, others) ==
    /\ phase = "Untrained"
    /\ model = None
    /\ disk \in {d \in [FileNames -> artifacts \cup others] :
                    d[DefaultFile] \in artifacts /\ d[OtherFile] \in others}
    /\ rng \in 0..(RngStates - 1)
    /\ pred = {}
    /\ pin = {}
    /\ raised = "none"
    /\ importances = {}

\* No PredictionModel is constructed: the state the signal functions run in.
InitSignals ==
    /\ phase = "Untrained"
    /\ model = None
    /\ disk = [f \in FileNames |-> Absent]
    /\ rng = 0
    /\ pred = {}
    /\ pin = {}
    /\ raised = "none"
    /\ importances = {}
    /\ nprng = 0
    /\ journal = {}
    /\ threads = NoThreads
    /\ calc = {}
    /\ kept = {}

InitWith(artifacts, others) ==
    /\ InitClassifier(artifacts, others)
    /\ nprng = 0
    /\ journal = {}
    /\ threads = NoThreads
    /\ calc = {}
    /\ kept = {}
    /\ processor = DataProcessor

Init ==
    InitWith({Absent, Corrupt, Stored({TrainedPipeline}), Stored({OlderPipeline})},
             {Absent, Stored({OlderPipeline})})

\* PredictionModel()
Construct(outcome) ==
    /\ phase = "Untrained"
    /\ phase' = "Trained"
    /\ model' = Constructed(disk, outcome, nprng).model
    /\ disk' = Constructed(disk, outcome, nprng).disk
    /\ nprng' = Constructed(disk, outcome, nprng).nprng
    /\ raised' = "none"
    /\ journal' = Log(journal,
                      Training(Call("__init__", DefaultFile, disk[DefaultFile].state,
                                    outcome, model, model', raised'),
                               nprng, Constructed(disk, outcome, nprng).samples))
    /\ UNCHANGED <<rng, pred, pin, importances, threads, calc, kept, processor>>

TrainModel(outcome) ==
    /\ phase = "Trained"
    /\ model' = train_model(model, disk, outcome, nprng).model
    /\ disk' = train_model(model, disk, outcome, nprng).disk
    /\ nprng' = train_model(model, disk, outcome, nprng).nprng
    /\ raised' = "none"
    /\ journal' = Log(journal,
                      Training(Call("train_model", DefaultFile, disk[DefaultFile].state,
                                    outcome, model, model', raised'),
                               nprng, train_model(model, disk, outcome, nprng).samples))
    /\ UNCHANGED <<phase, rng, pred, pin, importances, threads, calc, kept, processor>>

\* Variant: the scaler is fitted again, on the sample being predicted.
PredictRiskRefitting(data, keep) ==
    /\ phase = "Trained"
    /\ model # None
    /\ LET call == predict_risk(CHOOSE m \in model : TRUE, data, rng)
       IN  /\ rng' = call.rng
           /\ raised' = "none"
           /\ pred' = {call}
           /\ pin' = IF keep THEN pin ELSE pred
           /\ model' = {[call.model EXCEPT
                           !.scaler = [mean_ |-> call.features, scale_ |-> Ones]]}
    /\ UNCHANGED <<phase, disk, importances, nprng, journal, threads, calc, kept, processor>>

\* predict_risk(athlete_data).  keep says whether pin goes on naming the call
\* it names or takes the call that was the most recent one until now.
PredictRisk(data, keep) ==
    /\ phase = "Trained"
    /\ IF model = None
       THEN /\ rng' = BuildFeatures(data, rng).rng
            /\ raised' = "AttributeError"
            /\ UNCHANGED <<pred, pin>>
       ELSE LET call == predict_risk(CHOOSE m \in model : TRUE, data, rng)
            IN  /\ rng' = call.rng
                /\ raised' = "none"
                /\ pred' = {call}
                /\ pin' = IF keep THEN pin ELSE pred
    /\ UNCHANGED <<phase, model, disk, importances, nprng, journal, threads, calc, kept, processor>>

GetFeatureImportance(outcome) ==
    /\ phase = "Trained"
    /\ model' = IF model = None
                THEN train_model(model, disk, outcome, nprng).model ELSE model
    /\ disk' = IF model = None
               THEN train_model(model, disk, outcome, nprng).disk ELSE disk
    /\ nprng' = IF model = None
                THEN train_model(model, disk, outcome, nprng).nprng ELSE nprng
    /\ journal' = IF model = None
                  THEN Log(journal,
                           Training(Call("train_model", DefaultFile,
                                         disk[DefaultFile].state, outcome,
                                         model, model', "none"),
                                    nprng, train_model(model, disk, outcome, nprng).samples))
                  ELSE journal
    /\ importances' = {[ model |-> CHOOSE m \in model' : TRUE,
                         value |-> get_feature_importance(CHOOSE m \in model' : TRUE) ]}
    /\ raised' = "none"
    /\ UNCHANGED <<phase, rng, pred, pin, threads, calc, kept, processor>>

\* save_model(filename).  keep says whether the record of the call notes the
\* prediction that was the most recent one when it was made.
SaveModel(filename, outcome, keep) ==
    /\ phase = "Trained"
    /\ disk' = save_model(model, disk, filename, outcome)
    /\ raised' = "none"
    /\ journal' = Log(journal, After(Call("save_model", filename, disk[filename].state,
                                          outcome, model, model, raised'),
                                     IF keep THEN pred ELSE {}))
    /\ UNCHANGED <<phase, model, rng, pred, pin, importances, nprng, threads, calc, kept, processor>>

LoadModel(filename) ==
    /\ phase = "Trained"
    /\ model' = load_model(model, disk, filename).model
    /\ raised' = load_model(model, disk, filename).raised
    /\ journal' = Log(journal, Call("load_model", filename, disk[filename].state,
                                    "none", model, model', raised'))
    /\ UNCHANGED <<phase, disk, rng, pred, pin, importances, nprng, threads, calc, kept, processor>>

Next ==
    \/ \E outcome \in DumpOutcomes : Construct(outcome)
    \/ \E outcome \in DumpOutcomes : TrainModel(outcome)
    \/ \E data \in SampleInputs : PredictRisk(data, TRUE)
    \/ \E outcome \in DumpOutcomes : GetFeatureImportance(outcome)
    \/ \E filename \in FileNames, outcome \in DumpOutcomes : SaveModel(filename, outcome, FALSE)
    \/ \E filename \in FileNames : LoadModel(filename)

\* The lifecycle: every operation, on every artifact the disk can hold.
Spec == Init /\ [][Next]_vars

\* Repeated predictions: pin may name any earlier call, and the model in
\* memory changes only by loading one of two good artifacts.
InitRepeat ==
    InitWith({Stored({TrainedPipeline}), Stored({OlderPipeline})},
             {Absent, Stored({OlderPipeline})})

NextRepeat ==
    \/ Construct("written")
    \/ \E data \in SampleInputs, keep \in BOOLEAN : PredictRisk(data, keep)
    \/ GetFeatureImportance("written")
    \/ \E filename \in FileNames : SaveModel(filename, "written", FALSE)
    \/ \E filename \in FileNames : LoadModel(filename)

SpecRepeat == InitRepeat /\ [][NextRepeat]_vars

\* The feature vector, for every subset of the schema keys.
InitSchema == InitWith({Absent}, {Absent})

NextSchema ==
    \/ Construct("written")
    \/ \E values \in {LowValues, HighValues}, keys \in SUBSET SchemaKeys :
          PredictRisk(SchemaInput(values, keys), TRUE)

SpecSchema == InitSchema /\ [][NextSchema]_vars

\* The assessment, for every probability k / ProbDen a forest can report.
InitScore == InitWith({Stored({ConstantPipeline(k)}) : k \in 0..ProbDen}, {Absent})

NextScore ==
    \/ Construct("written")
    \/ \E data \in SampleInputs : PredictRisk(data, TRUE)
    \/ GetFeatureImportance("written")

SpecScore == InitScore /\ [][NextScore]_vars

----------------------------------------------------------------------------
(* Calls in flight on several threads: predict_risk on one shared            *)
(* PredictionModel, and get_athlete_data of the data provider.  A thread     *)
(* can be switched out between any two bytecodes; a step here is one call    *)
(* into the module-level random generator (seed, random, getrandbits: each   *)
(* runs in C without a switch) together with the statements around it that   *)
(* touch only the call's own locals.  random.uniform makes one such call,    *)
(* random.randint one or more.                                               *)

PredictThreads == {"worker-1", "worker-2"}
ProviderThread == "provider"
ThreadIds == PredictThreads \cup {ProviderThread}

ThreadInputs ==
    { AthleteData(Restrict(LowValues, SchemaKeys), {}),
      AthleteData(Restrict(LowValues, SchemaKeys \ {"semg_imbalance"}), {}),
      AthleteData(Restrict(LowValues, SchemaKeys \ {"age"}), {}) }

IdleThread ==
    [ pc |-> "idle", data |-> AthleteData(<< >>, {}), i |-> 0, features |-> Zeros,
      alone |-> {}, returned |-> {} ]

\* predict_risk, line 140: the call starts with its own zero vector.  alone
\* is what the call returns when nothing else runs until it has returned.
BeginPredict(t, data) ==
    /\ phase = "Trained" /\ model # None
    /\ t \in PredictThreads \cap DOMAIN threads
    /\ threads[t].pc = "idle"
    /\ threads' = [threads EXCEPT ![t] =
          [ pc |-> "fill", data |-> data, i |-> 1, features |-> Zeros,
            alone |-> {predict_risk(CHOOSE m \in model : TRUE, data, rng).result},
            returned |-> {} ]]
    /\ UNCHANGED <<phase, model, disk, rng, pred, pin, raised, importances,
                   nprng, journal, calc, kept, processor>>

\* Lines 143-163: the iteration for the feature calls the generator.
Draws(feature, data) == ~Has(data, feature) /\ feature # "previous_injuries"

\* Lines 143-163: the iterations from position i on that call no generator,
\* up to the next one that does or to the end of the loop.
RECURSIVE FillSupplied(_, _, _)
FillSupplied(i, data, features) ==
    IF i > NFeatures \/ Draws(feature_names[i], data) THEN [i |-> i, features |-> features]
    ELSE FillSupplied(i + 1, data,
                      [features EXCEPT ![i] = FeatureEntry(i, data, 0).value])

\* predict_risk, lines 143-163: one iteration of the loop and the iterations
\* after it that call no generator, or one getrandbits of its randint that has
\* to be repeated.
FillStep(t) ==
    /\ t \in PredictThreads \cap DOMAIN threads
    /\ threads[t].pc = "fill"
    /\ \E again \in Repeats(feature_names[threads[t].i], threads[t].data, rng) :
          IF again
          THEN /\ rng' = AfterWord(rng)
               /\ UNCHANGED threads
          ELSE LET e == FeatureEntry(threads[t].i, threads[t].data, rng)
                   rest == FillSupplied(threads[t].i + 1, threads[t].data,
                                        [threads[t].features EXCEPT
                                            ![threads[t].i] = e.value])
               IN  /\ rng' = e.rng
                   /\ threads' = [threads EXCEPT
                         ![t].features = rest.features,
                         ![t].i = rest.i,
                         ![t].pc = IF rest.i > NFeatures THEN "score" ELSE "fill"]
    /\ UNCHANGED <<phase, model, disk, pred, pin, raised, importances,
                   nprng, journal, calc, kept, processor>>

\* predict_risk, lines 166-181: the probability and the returned dict.
ScoreStep(t) ==
    /\ t \in PredictThreads \cap DOMAIN threads
    /\ threads[t].pc = "score"
    /\ model # None
    /\ LET pipeline == CHOOSE m \in model : TRUE
       IN  threads' = [threads EXCEPT
             ![t].pc = "done",
             ![t].returned =
                {Assessment(PredictProba(pipeline, threads[t].features),
                            get_feature_importance(pipeline))}]
    /\ UNCHANGED <<phase, model, disk, rng, pred, pin, raised, importances,
                   nprng, journal, calc, kept, processor>>

\* get_athlete_data, lines 163-167: an id that is not on the roster
ProviderMiss(athlete_id) ==
    /\ ProviderThread \in DOMAIN threads
    /\ threads[ProviderThread].pc = "idle"
    /\ FindAthlete(athlete_id) = {}
    /\ threads' = [threads EXCEPT
          ![ProviderThread].pc = "done",
          ![ProviderThread].i = athlete_id,
          ![ProviderThread].features = << >>]
    /\ UNCHANGED <<phase, model, disk, rng, pred, pin, raised, importances,
                   nprng, journal, calc, kept, processor>>

\* get_athlete_data, lines 163-174, up to random.seed(athlete_id).  alone is
\* what the call returns when nothing else runs until it has returned.
ProviderSeed(athlete_id) ==
    /\ ProviderThread \in DOMAIN threads
    /\ threads[ProviderThread].pc = "idle"
    /\ FindAthlete(athlete_id) # {}
    /\ rng' = SeedState(athlete_id)
    /\ threads' = [threads EXCEPT
          ![ProviderThread].pc = "seeded",
          ![ProviderThread].i = athlete_id,
          ![ProviderThread].features = << >>,
          ![ProviderThread].alone = get_athlete_data(athlete_id)]
    /\ UNCHANGED <<phase, model, disk, pred, pin, raised, importances,
                   nprng, journal, calc, kept, processor>>

\* get_athlete_data, lines 176-212: one call into the generator, which is
\* random.random() for the fifth of the ten draws and one getrandbits of
\* _randbelow for the others; randint repeats its getrandbits until the value
\* is in range, and another thread can run in between.  features holds the
\* state the generator was in when it yielded the value of each draw made.
ProviderDraw ==
    /\ ProviderThread \in DOMAIN threads
    /\ threads[ProviderThread].pc = "seeded"
    /\ LET made == threads[ProviderThread].features
           k == Len(made) + 1
           bounds == draw_bounds(k, RandInt(Append(made, rng)[1], 10, 90))
       IN  \E drawn \in IF k = 5 THEN {TRUE}
                        ELSE Accepts(rng, bounds[2] - bounds[1] + 1) :
              /\ rng' = IF k = 5 THEN AfterRandom(rng) ELSE AfterWord(rng)
              /\ threads' = [threads EXCEPT
                    ![ProviderThread].features = IF drawn THEN Append(@, rng) ELSE @,
                    ![ProviderThread].pc =
                        IF drawn /\ k = 10 THEN "generated" ELSE "seeded"]
    /\ UNCHANGED <<phase, model, disk, pred, pin, raised, importances,
                   nprng, journal, calc, kept, processor>>

\* get_athlete_data, lines 215-217: random.seed() takes a state from the
\* system, and the dict is returned.
ProviderReseed ==
    /\ ProviderThread \in DOMAIN threads
    /\ threads[ProviderThread].pc = "generated"
    /\ rng' \in 0..(RngStates - 1)
    /\ threads' = [threads EXCEPT
          ![ProviderThread].pc = "done",
          ![ProviderThread].returned =
              {athlete_record(athlete, threads[ProviderThread].features) :
                  athlete \in FindAthlete(threads[ProviderThread].i)}]
    /\ UNCHANGED <<phase, model, disk, pred, pin, raised, importances,
                   nprng, journal, calc, kept, processor>>

\* Ids handed to get_athlete_data: the roster and one id that is not on it
ProviderIds == AthleteIds \cup {0}

\* The ids of the calls that run next to predict_risk
InterleavedIds == {0, 1, 3, 5}

\* The ids of the histories: one that is not on the roster, one whose risk
\* score is at most 70 and one whose risk score is above
HistoryIds == {0, 1, 5}

InitThreads ==
    /\ InitClassifier({Stored({TrainedPipeline})}, {Absent})
    /\ nprng = 0
    /\ journal = {}
    /\ threads = [t \in ThreadIds |-> IdleThread]
    /\ calc = {}
    /\ kept = {}
    /\ processor = DataProcessor

NextThreads ==
    \/ Construct("written")
    \/ \E t \in PredictThreads, data \in ThreadInputs : BeginPredict(t, data)
    \/ \E t \in PredictThreads : FillStep(t)
    \/ \E t \in PredictThreads : ScoreStep(t)
    \/ \E athlete_id \in InterleavedIds : ProviderMiss(athlete_id)
    \/ \E athlete_id \in InterleavedIds : ProviderSeed(athlete_id)
    \/ ProviderDraw
    \/ ProviderReseed

SpecThreads == InitThreads /\ [][NextThreads]_vars

\* app.py, lines 294 and 298: the pages draw from numpy's global generator.
NumpyDraw ==
    /\ phase = "Trained"
    /\ nprng' = (nprng + 1) % RngStates
    /\ UNCHANGED <<phase, model, disk, rng, pred, pin, raised, importances,
                   journal, threads, calc, kept, processor>>

\* Training: numpy's generator starts anywhere and is used between trainings.
InitTrain ==
    /\ InitClassifier({Absent, Stored({OlderPipeline})}, {Stored({OlderPipeline})})
    /\ nprng \in 0..(RngStates - 1)
    /\ journal = {<< >>}
    /\ threads = NoThreads
    /\ calc = {}
    /\ kept = {}
    /\ processor = DataProcessor

NextTrain ==
    \/ \E outcome \in DumpOutcomes : Construct(outcome)
    \/ \E outcome \in DumpOutcomes : TrainModel(outcome)
    \/ \E filename \in FileNames : LoadModel(filename)
    \/ \E data \in PersistInputs : PredictRisk(data, TRUE)
    \/ NumpyDraw

SpecTrain == InitTrain /\ [][NextTrain]_vars

\* The fields of a DataProcessor are plain attributes: any of them can be set.
Configure(field, value) ==
    /\ processor' = [processor EXCEPT ![field] = value]
    /\ UNCHANGED <<phase, model, disk, rng, pred, pin, raised, importances,
                   nprng, journal, threads, calc, kept>>

FilterSemg(semg_data) ==
    /\ \E end \in filter_semg(processor, semg_data) :
          calc' = {[ op |-> "filter_semg", processor |-> processor,
                     semg_data |-> semg_data, raised |-> end.raised,
                     low |-> end.low, high |-> end.high, returned |-> end.returned ]}
    /\ UNCHANGED <<phase, model, disk, rng, pred, pin, raised, importances,
                   nprng, journal, threads, kept, processor>>

\* Filtering: one DataProcessor whose fields are set and whose filter is run.
InitFilter ==
    /\ InitSignals
    /\ processor = DataProcessor

NextFilter ==
    \/ \E value \in SampleRates : Configure("sample_rate", value)
    \/ \E value \in Orders : Configure("butterworth_order", value)
    \/ \E value \in Cutoffs : Configure("lowcut", value)
    \/ \E value \in Cutoffs : Configure("highcut", value)
    \/ \E semg_data \in SemgWindows : FilterSemg(semg_data)

SpecFilter == InitFilter /\ [][NextFilter]_vars

ExtractAllFeatures(emg_window, hr_window, temp_window) ==
    /\ calc' = {[ op |-> "extract_all_features", emg_window |-> emg_window,
                  hr_window |-> hr_window, temp_window |-> temp_window,
                  zero_at |-> {},
                  returned |-> extract_all_features(emg_window, hr_window, temp_window) ]}
    /\ kept' = {}
    /\ UNCHANGED <<phase, model, disk, rng, pred, pin, raised, importances,
                   nprng, journal, threads, processor>>

ExtractEmgFeatures(emg_window) ==
    /\ calc' = {[ op |-> "extract_emg_features", emg_window |-> emg_window,
                  hr_window |-> << >>, temp_window |-> << >>, zero_at |-> {},
                  returned |-> extract_emg_features(emg_window) ]}
    /\ kept' = {}
    /\ UNCHANGED <<phase, model, disk, rng, pred, pin, raised, importances,
                   nprng, journal, threads, processor>>

ExtractHrFeatures(hr_window) ==
    /\ calc' = {[ op |-> "extract_hr_features", emg_window |-> Window(0, << >>),
                  hr_window |-> hr_window, temp_window |-> << >>, zero_at |-> {},
                  returned |-> extract_hr_features(hr_window) ]}
    /\ kept' = {}
    /\ UNCHANGED <<phase, model, disk, rng, pred, pin, raised, importances,
                   nprng, journal, threads, processor>>

ExtractTempFeatures(temp_window) ==
    /\ calc' = {[ op |-> "extract_temp_features", emg_window |-> Window(0, << >>),
                  hr_window |-> << >>, temp_window |-> temp_window, zero_at |-> {},
                  returned |-> extract_temp_features(temp_window) ]}
    /\ kept' = {}
    /\ UNCHANGED <<phase, model, disk, rng, pred, pin, raised, importances,
                   nprng, journal, threads, processor>>

\* extract_emg_features on the single-channel window of the call before, with
\* one zero-valued sample put in after its first k samples.
ExtractWithZero(k) ==
    /\ \E c \in calc :
          /\ c.op = "extract_emg_features"
          /\ c.emg_window.channels = 1
          /\ c.emg_window.samples < MaxSamples
          /\ k <= c.emg_window.samples
          /\ LET emg_window == Window(c.emg_window.samples + 1,
                                      <<InsertZero(Column(c.emg_window, 1), k)>>)
             IN  calc' = {[ op |-> "extract_emg_features", emg_window |-> emg_window,
                            hr_window |-> << >>, temp_window |-> << >>,
                            zero_at |-> {k},
                            returned |-> extract_emg_features(emg_window) ]}
    /\ kept' = calc
    /\ UNCHANGED <<phase, model, disk, rng, pred, pin, raised, importances,
                   nprng, journal, threads, processor>>

\* Feature extraction: windows are drawn and the extractors applied.
InitFeatures ==
    /\ InitSignals
    /\ processor = DataProcessor

NextFeatures ==
    \/ \E emg_window \in EmgWindows, hr_window \in HrWindows, temp_window \in TempWindows :
          ExtractAllFeatures(emg_window, hr_window, temp_window)
    \/ \E signal \in Signals : ExtractEmgFeatures(Window(Len(signal), <<signal>>))
    \/ \E k \in 0..MaxSamples : ExtractWithZero(k)
    \/ \E hr_window \in SeriesWindows : ExtractHrFeatures(hr_window)
    \/ \E temp_window \in SeriesWindows : ExtractTempFeatures(temp_window)

SpecFeatures == InitFeatures /\ [][NextFeatures]_vars

\* A call that has its arguments and has not returned yet.
Pending(op, args) == [op |-> op, args |-> args, locals |-> << >>, returned |-> << >>]

\* extract_emg_features on a window of one channel of float samples
ExtractEmgFloat ==
    /\ \E c \in calc :
          /\ c.op = "extract_emg_features"
          /\ c.returned = << >>
          /\ LET signal == c.args[1]
             IN  calc' = {[c EXCEPT !.returned =
                            <<float_rms(signal), float_mav(signal),
                              float_iemg(signal), float_wl(signal),
                              float_zc(signal)>>]}
    /\ UNCHANGED <<phase, model, disk, rng, pred, pin, raised, importances,
                   nprng, journal, threads, kept, processor>>

\* Float features: the channel is drawn, then extract_emg_features is applied.
InitFloatFeatures ==
    /\ phase = "Untrained"
    /\ model = None
    /\ disk = [f \in FileNames |-> Absent]
    /\ rng = 0
    /\ pred = {}
    /\ pin = {}
    /\ raised = "none"
    /\ importances = {}
    /\ nprng = 0
    /\ journal = {}
    /\ threads = NoThreads
    /\ calc \in {{Pending("extract_emg_features", <<signal>>)} : signal \in FloatSignals}
    /\ kept = {}
    /\ processor = DataProcessor

NextFloatFeatures == ExtractEmgFloat

SpecFloatFeatures == InitFloatFeatures /\ [][NextFloatFeatures]_vars

\* calculate_muscle_fatigue, lines 72-82, on the spectrum welch returned
Fatigue(c) ==
    LET f == c.args[1]
        Pxx == c.args[2]
        idx == median_freq_idx(Pxx)
        median_freq == f[idx]
    IN  [c EXCEPT !.locals = <<idx, median_freq>>,
                  !.returned = <<fatigue_index(median_freq)>>]

\* The earlier of two calls
CalculateMuscleFatigueFirst ==
    /\ \E c \in kept :
          /\ c.op = "calculate_muscle_fatigue"
          /\ c.returned = << >>
          /\ kept' = {Fatigue(c)}
    /\ UNCHANGED <<phase, model, disk, rng, pred, pin, raised, importances,
                   nprng, journal, threads, calc, processor>>

CalculateMuscleFatigue ==
    /\ \A c \in kept : c.returned # << >>
    /\ \E c \in calc :
          /\ c.op = "calculate_muscle_fatigue"
          /\ c.returned = << >>
          /\ calc' = {Fatigue(c)}
    /\ UNCHANGED <<phase, model, disk, rng, pred, pin, raised, importances,
                   nprng, journal, threads, kept, processor>>

\* Fatigue: two spectra are drawn, then calculate_muscle_fatigue is applied to
\* the first and to the second.
InitFatigue ==
    /\ phase = "Untrained"
    /\ model = None
    /\ disk = [f \in FileNames |-> Absent]
    /\ rng = 0
    /\ pred = {}
    /\ pin = {}
    /\ raised = "none"
    /\ importances = {}
    /\ nprng = 0
    /\ journal = {}
    /\ threads = NoThreads
    /\ processor = DataProcessor
    /\ \E pair \in SpectraPairs :
          LET f == WelchFrequencies(processor.sample_rate)
          IN  /\ kept = {Pending("calculate_muscle_fatigue", <<f, pair[1]>>)}
              /\ calc = {Pending("calculate_muscle_fatigue", <<f, pair[2]>>)}

NextFatigue == CalculateMuscleFatigueFirst \/ CalculateMuscleFatigue

SpecFatigue == InitFatigue /\ [][NextFatigue]_vars

\* calculate_muscle_imbalance applied to a pending call: the call returns, or
\* the exception of calculate_rms leaves it.
Imbalance(c) ==
    LET result == calculate_muscle_imbalance(c.args[1], c.args[2])
    IN  [c EXCEPT !.locals = result.locals, !.returned = result.value]

\* The earlier of two calls
CalculateMuscleImbalanceFirst ==
    /\ raised = "none"
    /\ \E c \in kept :
          /\ c.op = "calculate_muscle_imbalance"
          /\ c.returned = << >>
          /\ kept' = {Imbalance(c)}
          /\ raised' = calculate_muscle_imbalance(c.args[1], c.args[2]).raised
    /\ UNCHANGED <<phase, model, disk, rng, pred, pin, importances,
                   nprng, journal, threads, calc, processor>>

CalculateMuscleImbalance ==
    /\ raised = "none"
    /\ \A c \in kept : c.returned # << >>
    /\ \E c \in calc :
          /\ c.op = "calculate_muscle_imbalance"
          /\ c.returned = << >>
          /\ calc' = {Imbalance(c)}
          /\ raised' = calculate_muscle_imbalance(c.args[1], c.args[2]).raised
    /\ UNCHANGED <<phase, model, disk, rng, pred, pin, importances,
                   nprng, journal, threads, kept, processor>>

\* Imbalance: a pair of signals is drawn, then calculate_muscle_imbalance is
\* applied to it, and again with the sides swapped.
InitImbalance ==
    /\ phase = "Untrained"
    /\ model = None
    /\ disk = [f \in FileNames |-> Absent]
    /\ rng = 0
    /\ pred = {}
    /\ pin = {}
    /\ raised = "none"
    /\ importances = {}
    /\ nprng = 0
    /\ journal = {}
    /\ threads = NoThreads
    /\ processor = DataProcessor
    /\ \E pair \in SignalPairs :
          /\ kept = {Pending("calculate_muscle_imbalance", <<pair[1], pair[2]>>)}
          /\ calc = {Pending("calculate_muscle_imbalance", <<pair[2], pair[1]>>)}

NextImbalance == CalculateMuscleImbalanceFirst \/ CalculateMuscleImbalance

SpecImbalance == InitImbalance /\ [][NextImbalance]_vars

\* Every score of the list is classified at the four sites that band a
\* score: predict_risk's label, utils.risk_color, get_athlete_data's colour
\* and the counts of get_team_summary.
ClassifyScores ==
    /\ \E c \in calc :
          /\ c.op = "risk_bands"
          /\ c.locals = << >>
          /\ LET risk_scores == c.args[1]
                 n == Len(risk_scores)
             IN  calc' = {[c EXCEPT !.locals =
                            << [i \in 1..n |-> RiskLabel(risk_scores[i])],
                               [i \in 1..n |-> risk_color(risk_scores[i])],
                               [i \in 1..n |-> athlete_risk_color(risk_scores[i])],
                               [i \in 1..n |-> TeamBands(risk_scores[i])] >>]}
    /\ UNCHANGED <<phase, model, disk, rng, pred, pin, raised, importances,
                   nprng, journal, threads, kept, processor>>

\* get_athlete_data, the whole call: the generator is seeded with the id and
\* left in a state taken from the system; untouched for an unknown id.
GetAthleteData(athlete_id) ==
    /\ kept' = {[Pending("get_athlete_data", <<athlete_id>>) EXCEPT
                    !.returned = <<get_athlete_data(athlete_id)>>]}
    /\ IF FindAthlete(athlete_id) = {} THEN rng' = rng ELSE rng' \in 0..(RngStates - 1)
    /\ raised' = "none"
    /\ UNCHANGED <<phase, model, disk, pred, pin, importances,
                   nprng, journal, threads, calc, processor>>

\* get_team_summary, the whole call: get_athlete_data for every athlete of
\* the roster, the last of them leaving the generator in a state taken from
\* the system.
GetTeamSummary ==
    /\ kept' = {[Pending("get_team_summary", << >>) EXCEPT
                    !.returned = <<get_team_summary>>]}
    /\ rng' \in 0..(RngStates - 1)
    /\ raised' = "none"
    /\ UNCHANGED <<phase, model, disk, pred, pin, importances,
                   nprng, journal, threads, calc, processor>>

\* get_historical_data, the whole call
GetHistoricalData(athlete_id, metric, days) ==
    \E reseeded \in IF metric = "temperature" THEN 0..(RngStates - 1) ELSE {0} :
        LET history == get_historical_data(athlete_id, metric, days, rng, reseeded)
        IN  /\ kept' = {[Pending("get_historical_data", <<athlete_id, metric, days>>) EXCEPT
                            !.locals = <<history.dates>>,
                            !.returned = <<history.values>>]}
            /\ rng' = history.rng
            /\ raised' = history.raised
            /\ UNCHANGED <<phase, model, disk, pred, pin, importances,
                           nprng, journal, threads, calc, processor>>

\* Risk bands: a list of scores is drawn and classified, and the team is
\* summed up.
InitBands ==
    /\ phase = "Untrained"
    /\ model = None
    /\ disk = [f \in FileNames |-> Absent]
    /\ rng \in 0..(RngStates - 1)
    /\ pred = {}
    /\ pin = {}
    /\ raised = "none"
    /\ importances = {}
    /\ nprng = 0
    /\ journal = {}
    /\ threads = NoThreads
    /\ kept = {}
    /\ processor = DataProcessor
    /\ calc \in {{Pending("risk_bands", <<risk_scores>>)} : risk_scores \in ScoreLists}

NextBands == ClassifyScores \/ GetTeamSummary

SpecBands == InitBands /\ [][NextBands]_vars

\* The data provider next to the classifier: its calls move the generator
\* that predict_risk draws from.
InitProvider ==
    /\ InitClassifier({Stored({TrainedPipeline})}, {Absent})
    /\ nprng = 0
    /\ journal = {}
    /\ threads = NoThreads
    /\ calc = {}
    /\ kept = {}
    /\ processor = DataProcessor

NextProvider ==
    \/ Construct("written")
    \/ \E data \in ThreadInputs : PredictRisk(data, TRUE)
    \/ \E athlete_id \in ProviderIds : GetAthleteData(athlete_id)
    \/ GetTeamSummary
    \/ \E athlete_id \in HistoryIds, metric \in Metrics, days \in 0..MaxDays :
          GetHistoricalData(athlete_id, metric, days)

SpecProvider == InitProvider /\ [][NextProvider]_vars

\* Persistence: the lifecycle with the record of persistence calls kept.
InitPersist ==
    /\ InitClassifier({Absent, Corrupt, Stored({TrainedPipeline}), Stored({OlderPipeline})},
                      {Absent, Stored({OlderPipeline})})
    /\ nprng = 0
    /\ journal = {<< >>}
    /\ threads = NoThreads
    /\ calc = {}
    /\ kept = {}
    /\ processor = DataProcessor

NextPersist ==
    \/ \E outcome \in DumpOutcomes : Construct(outcome)
    \/ \E outcome \in DumpOutcomes : TrainModel(outcome)
    \/ \E filename \in FileNames, outcome \in DumpOutcomes : SaveModel(filename, outcome, FALSE)
    \/ \E filename \in FileNames : LoadModel(filename)
    \/ \E data \in PersistInputs : PredictRisk(data, TRUE)

SpecPersist == InitPersist /\ [][NextPersist]_vars

\* A save and a load around predictions: the artifact is in place at
\* construction, and predict_risk is called on the fixed test set.
InitRoundTrip ==
    /\ InitClassifier({Stored({TrainedPipeline})}, {Absent, Stored({OlderPipeline})})
    /\ nprng = 0
    /\ journal = {<< >>}
    /\ threads = NoThreads
    /\ calc = {}
    /\ kept = {}
    /\ processor = DataProcessor

NextRoundTrip ==
    \/ Construct("written")
    \/ \E filename \in FileNames, outcome \in {"written", "failed"} :
          SaveModel(filename, outcome, TRUE)
    \/ \E filename \in FileNames : LoadModel(filename)
    \/ \E data \in RoundTripInputs : PredictRisk(data, TRUE)

SpecRoundTrip == InitRoundTrip /\ [][NextRoundTrip]_vars

----------------------------------------------------------------------------
(* Vocabulary of the properties *)

\* num / den rounded to the nearest integer, a half going to the even one
\* (Python's round); num >= 0, den > 0.
RoundNearest(num, den) ==
    LET q == num \div den
        twice == 2 * (num % den)
    IN  IF twice < den THEN q
        ELSE IF twice > den THEN q + 1
        ELSE IF q % 2 = 0 THEN q ELSE q + 1

FullSchema(data) == SchemaKeys \subseteq DOMAIN data.num

SchemaPart(data) == Restrict(data.num, SchemaKeys \cap DOMAIN data.num)

RiskLabels == {"Low", "Medium", "High"}

\* items is the dict of pipeline's importances: each schema name once, with
\* the importance the forest reports at that name's position, in
\* non-increasing order, summing to at most 1.
IsImportanceDict(items, pipeline) ==
    /\ Len(items) = NFeatures
    /\ {items[i][1] : i \in 1..Len(items)} = SchemaKeys
    /\ \A i \in 1..Len(items) : \A j \in 1..NFeatures :
          items[i][1] = feature_names[j] =>
              items[i][2] = pipeline.classifier.feature_importances_[j]
    /\ \A i \in 1..(Len(items) - 1) : items[i][2] >= items[i + 1][2]
    /\ SumSeq([i \in 1..Len(items) |-> items[i][2]]) <= ImpDen

----------------------------------------------------------------------------
(* C1: once __init__ has returned, self.model is never None, whatever         *)
(* train_model, predict_risk, get_feature_importance, save_model and          *)
(* load_model calls follow, load_model calls on a missing file included.      *)
C1_ModelNeverNoneAgain == phase = "Trained" => model # None

\* A load_model call after construction failed on a missing file.
C1_Witness ==
    phase = "Trained" /\ raised = "FileNotFoundError" /\ model # None

(* C2: two predict_risk calls on the same fitted model with the same input    *)
(* that supplies all eight schema features return the same four fields.       *)
C2_PredictIdempotent ==
    \A a \in pin, b \in pred :
        (a.data = b.data /\ a.model = b.model /\ FullSchema(b.data))
            => a.result = b.result

\* Two calls with the same full input on the same model have been made, with
\* the random generator in different states.
C2_Witness ==
    \E a \in pin, b \in pred :
        a.data = b.data /\ a.model = b.model /\ FullSchema(b.data)
        /\ a.rng # b.rng

(* C3: two predict_risk calls on the same fitted model with the same input    *)
(* that lacks one or more schema keys build the same feature vector and       *)
(* return the same result, whatever the state of the random generator.        *)
C3_ImputationDeterministic ==
    \A a \in pin, b \in pred :
        (a.data = b.data /\ a.model = b.model /\ ~FullSchema(b.data))
            => (a.features = b.features /\ a.result = b.result)

(* C4: for every subset of the schema keys present in athlete_data the call   *)
(* does not fail and the vector handed to the model has eight entries in      *)
(* schema order, entry i holding the supplied value of feature i whenever     *)
(* that key is present.                                                       *)
FeatureSchema ==
    << "semg_imbalance", "muscle_fatigue", "training_load", "recovery_time",
       "previous_injuries", "temperature_variation", "age", "consecutive_games" >>

C4_VectorInSchemaOrder ==
    /\ raised = "none"
    /\ \A b \in pred :
          /\ Len(b.features) = Len(FeatureSchema)
          /\ \A i \in 1..Len(FeatureSchema) :
                FeatureSchema[i] \in DOMAIN b.data.num
                    => b.features[i] = b.data.num[FeatureSchema[i]]

\* A call whose input has the third and the seventh feature and no other.
C4_Witness ==
    \E b \in pred :
        /\ DOMAIN b.data.num = {"training_load", "age"}
        /\ b.features[3] = HighValues.training_load
        /\ b.features[7] = HighValues.age

(* C5, as claimed: an input whose set of names disagrees with the schema      *)
(* (names outside it, or another number of features) yields no assessment.    *)
C5_MismatchRejected == \A b \in pred : DOMAIN b.data.num = SchemaKeys

(* C5, amended: such an input does not fail.  Names outside the schema are    *)
(* ignored: two inputs that supply all schema features with the same values   *)
(* get the same vector and the same assessment on the same model, whatever    *)
(* other names they carry; and every assessment is made from a vector of      *)
(* eight entries, the missing ones filled in.                                 *)
C5_ExtrasIgnoredMissingFilled ==
    /\ \A b \in pred : Len(b.features) = NFeatures
    /\ \A a \in pin, b \in pred :
          ( /\ a.model = b.model
            /\ FullSchema(a.data) /\ FullSchema(b.data)
            /\ SchemaPart(a.data) = SchemaPart(b.data) )
              => (a.features = b.features /\ a.result = b.result)

\* The same full schema values were assessed with and without other names.
C5_Witness ==
    \E a \in pin, b \in pred :
        /\ a.model = b.model
        /\ FullSchema(a.data) /\ FullSchema(b.data)
        /\ SchemaPart(a.data) = SchemaPart(b.data)
        /\ DOMAIN a.data.num = SchemaKeys
        /\ DOMAIN b.data.num # SchemaKeys

(* C6, as claimed: risk_score is probability x 100 rounded to the nearest     *)
(* integer.                                                                   *)
C6_ScoreRounded ==
    \A b \in pred : b.result.risk_score = RoundNearest(100 * b.probability, ProbDen)

(* C6, amended: risk_score is probability x 100 truncated to an integer, the  *)
(* largest integer that is not above probability x 100.                       *)
C6_ScoreTruncated ==
    \A b \in pred :
        /\ b.result.risk_score * ProbDen <= 100 * b.probability
        /\ 100 * b.probability < (b.result.risk_score + 1) * ProbDen

\* A probability whose hundredfold has a fractional part of a half or more.
C6_Witness ==
    \E b \in pred : 2 * ((100 * b.probability) % ProbDen) >= ProbDen

(* C7: risk_label is High exactly when risk_score >= 60, Medium exactly when  *)
(* 30 <= risk_score < 60 and Low exactly when risk_score < 30.                *)
C7_LabelBands ==
    \A b \in pred :
        /\ b.result.risk_score \in 0..100
        /\ b.result.risk_label \in RiskLabels
        /\ b.result.risk_label = "High" <=> b.result.risk_score >= 60
        /\ b.result.risk_label = "Medium" <=>
              (30 <= b.result.risk_score /\ b.result.risk_score < 60)
        /\ b.result.risk_label = "Low" <=> b.result.risk_score < 30

\* A score on the lower edge of the High band.
C7_Witness ==
    \E b \in pred : b.result.risk_score = 60 /\ b.result.risk_label = "High"

(* C8: the confidence is round(2 x |p - 0.5| x 100), which is 100 at p = 0    *)
(* and p = 1, 0 at p = 0.5 and never decreases as |p - 0.5| grows.            *)
C8_ConfidenceFromBoundary ==
    \A b \in pred :
        b.result.prediction_confidence =
            RoundNearest(100 * Abs(2 * b.probability - ProbDen), ProbDen)

(* C9: every predict_risk call that returns yields all four fields,           *)
(* risk_score an integer in 0..100, risk_label one of Low, Medium, High,      *)
(* the confidence an integer in 0..100 and risk_factors present, for every    *)
(* probability, and no call fails.                                          *)
C9_AssessmentComplete ==
    /\ raised = "none"
    /\ \A b \in pred :
          /\ DOMAIN b.result =
                {"risk_score", "risk_label", "risk_factors", "prediction_confidence"}
          /\ b.result.risk_score \in 0..100
          /\ b.result.risk_label \in RiskLabels
          /\ b.result.prediction_confidence \in 0..100
          /\ Len(b.result.risk_factors) = NFeatures

\* An assessment of a probability below one half that is not zero.
C9_Witness ==
    \E b \in pred : 0 < b.probability /\ 4 * b.probability < ProbDen

(* C10: risk_factors of every prediction, and the value of every              *)
(* get_feature_importance call, is the dict of the model's importances:       *)
(* the eight schema names, each once, each with the forest's importance of    *)
(* that feature, in non-increasing order of importance, summing to at most 1. *)
C10_RiskFactorsAreImportances ==
    /\ \A b \in pred : IsImportanceDict(b.result.risk_factors, b.model)
    /\ \A g \in importances : IsImportanceDict(g.value, g.model)

\* Predictions and get_feature_importance on a forest with equal importances.
C10_Witness ==
    /\ \E b \in pred : b.model = OlderPipeline
    /\ \E g \in importances : g.model = OlderPipeline /\ g.value[1][2] = g.value[2][2]

----------------------------------------------------------------------------
(* Vocabulary of the persistence properties *)

\* The calls on record, oldest first.
Calls == IF journal = {} THEN << >> ELSE CHOOSE c \in journal : TRUE

LastCalls == IF Calls = << >> THEN {} ELSE {Calls[Len(Calls)]}

\* The two calls on record are a save_model that wrote filename with a model
\* in memory and then a load_model of the same file.
SavedThenLoaded(filename) ==
    /\ Len(Calls) = 2
    /\ Calls[1].op = "save_model" /\ Calls[1].filename = filename
    /\ Calls[1].outcome = "written" /\ Calls[1].before # None
    /\ Calls[2].op = "load_model" /\ Calls[2].filename = filename

(* C11: load_model on a path that does not exist fails with the not-found     *)
(* error and leaves self.model as it was; on a path that holds an artifact it *)
(* replaces self.model with the stored model.                                 *)
C11_LoadMissingLeavesModel ==
    /\ \A i \in 1..Len(Calls) :
          (Calls[i].op = "load_model" /\ Calls[i].found = "absent")
              => (Calls[i].raised = "FileNotFoundError"
                    /\ Calls[i].after = Calls[i].before)
    /\ \A c \in LastCalls :
          /\ (c.op = "load_model" /\ c.found = "absent")
                => (c.raised = "FileNotFoundError" /\ model = c.before)
          /\ (c.op = "load_model" /\ c.found = "ok")
                => (c.raised = "none" /\ model = disk[c.filename].content)

\* A load of a missing file has just failed with a model in memory, and the
\* call before it was a load that replaced the model.
C11_Witness ==
    /\ Len(Calls) = 2
    /\ Calls[1].op = "load_model" /\ Calls[1].found = "ok"
    /\ Calls[1].before # Calls[1].after
    /\ Calls[2].op = "load_model" /\ Calls[2].found = "absent"
    /\ model = Calls[1].after

(* C12: recovery from a missing artifact is not done inside the classifier:   *)
(* a constructor whose load fails surfaces the failure to its caller and      *)
(* does not train, and no failure other than the missing file leads to        *)
(* training.                                                                  *)
C12_RecoveryOutsideClassifier ==
    \A i \in 1..Len(Calls) :
        (Calls[i].op = "__init__" /\ Calls[i].found # "ok")
            => (Calls[i].raised # "none" /\ Calls[i].after = None)

\* The prediction on record when the file was saved, and a prediction on the
\* same input by the model in memory.
SameInput(a, b) ==
    a.model \in Calls[1].before /\ b.model \in model /\ b.data = a.data

(* C13: save_model(f) that wrote the file, followed by load_model(f), leaves  *)
(* a model equal to the saved one, and every prediction made after the load   *)
(* equals the prediction made before the save on the same input, whatever     *)
(* the input; a new PredictionModel after a save to the default file holds    *)
(* the saved model.                                                           *)
C13_SaveLoadRoundTrip ==
    /\ [](\A filename \in FileNames :
              SavedThenLoaded(filename) =>
                  (Calls[2].raised = "none" /\ model = Calls[1].before))
    /\ [](\A c \in LastCalls :
              (c.op = "save_model" /\ c.filename = DefaultFile
                  /\ c.outcome = "written" /\ c.before # None)
                => Constructed(disk, "failed", nprng).model = c.before)
    /\ [][ \A filename \in FileNames :
              (SavedThenLoaded(filename) /\ pred' # pred) =>
                  \A a \in Calls[1].predicted, b \in pred' :
                      SameInput(a, b) => b.result = a.result ]_vars

(* C14: predict_risk and get_feature_importance on a trained PredictionModel  *)
(* leave self.model (the stored transform and the forest) and the artifact    *)
(* files as they are; the transform is not fitted again at inference.         *)
C14_InferenceReadsOnly ==
    [][ (pred' # pred \/ importances' # importances)
            => (model' = model /\ disk' = disk) ]_vars

\* A prediction and a get_feature_importance call have been made, and the
\* model in memory is still the one the default file holds.
C14_Witness ==
    /\ importances # {}
    /\ \E b \in pred : model = {b.model} /\ ~FullSchema(b.data)
    /\ disk[DefaultFile] = Stored(model)

(* C15: when predict_risk calls and get_athlete_data calls are interleaved on  *)
(* one shared model, every predict_risk call returns what it would return     *)
(* when run alone, for every interleaving.                                    *)
C15_PredictReentrant ==
    \A t \in PredictThreads \cap DOMAIN threads :
        threads[t].pc = "done" => threads[t].returned = threads[t].alone

\* The entries of the record in which a training ran.
Trainings == {k \in DOMAIN Calls : Calls[k].samples # {}}

(* C16: any two train_model runs draw the same training set and fit the same  *)
(* model, whatever preceded them (the model in memory, the state of numpy's   *)
(* generator), and the fitted model replaces the one in memory.               *)
C16_TrainingReproducible ==
    /\ \A k \in Trainings :
          /\ Calls[k].after = {Fit(CHOOSE x \in Calls[k].samples : TRUE, RandomSeed)}
          /\ Calls[k].samples = {SyntheticData(NpSeed(RandomSeed))}
    /\ \A j, k \in Trainings :
          /\ Calls[j].samples = Calls[k].samples
          /\ Calls[j].after = Calls[k].after
    /\ (Trainings # {} /\ Len(Calls) \in Trainings) => model = Calls[Len(Calls)].after

\* Two trainings in a row that started from different models in memory and
\* from different states of numpy's generator.
C16_Witness ==
    /\ Len(Calls) = 2
    /\ Trainings = {1, 2}
    /\ Calls[1].before # Calls[2].before
    /\ Calls[1].generator # Calls[2].generator
    /\ Calls[1].before = {OlderPipeline}
    /\ Calls[2].op = "train_model"

\* The code defines no InvalidFilterSpec.  The error that stands for it is
\* the one the filter design raises for a specification it rejects.
InvalidFilterSpec == {"ValueError"}

\* 0 < lowcut < highcut < sample_rate / 2 and butterworth_order >= 1
ValidFilterSpec(p) ==
    /\ 0 < p.lowcut
    /\ p.lowcut < p.highcut
    /\ 2 * p.highcut < p.sample_rate
    /\ p.butterworth_order >= 1

(* C17: whenever the configured values violate 0 < lowcut < highcut <         *)
(* sample_rate/2 or butterworth_order >= 1, filter_semg fails with            *)
(* InvalidFilterSpec and returns no filtered signal; the default              *)
(* configuration satisfies the constraints and its normalized cutoffs lie      *)
(* strictly between 0 and 1.                                                  *)
C17_FilterGuarded ==
    /\ ValidFilterSpec(DataProcessor)
    /\ \A c \in calc :
          /\ ~ValidFilterSpec(c.processor) =>
                c.raised \in InvalidFilterSpec /\ c.returned = {}
          /\ c.processor = DataProcessor =>
                \A q \in c.low \cup c.high : Positive(q) /\ BelowOne(q)

\* The features of channel ch (counted from 1) in a returned vector.
ChannelPart(returned, ch) == SubSeq(returned, 5 * (ch - 1) + 1, 5 * ch)

(* C18: for an EMG window with C channels extract_all_features returns        *)
(* exactly 5*C + 5 entries: for each channel in channel order RMS, MAV, IEMG,  *)
(* waveform length and zero-crossing count, then the heart-rate mean,          *)
(* population standard deviation and delta, then the temperature mean and      *)
(* rate.                                                                       *)
C18_FeatureLayout ==
    \A c \in calc :
        c.op = "extract_all_features" =>
            LET C == c.emg_window.channels
                r == c.returned
            IN  /\ Len(r) = 5 * C + 5
                /\ \A ch \in 1..C :
                      LET signal == Column(c.emg_window, ch)
                      IN  /\ r[5 * (ch - 1) + 1] = RootMeanSquare(signal)
                          /\ r[5 * (ch - 1) + 2] = MeanAbsoluteValue(signal)
                          /\ r[5 * (ch - 1) + 3] = IntegratedEmg(signal)
                          /\ r[5 * (ch - 1) + 4] = WaveformLength(signal)
                          /\ r[5 * (ch - 1) + 5] = ZeroCrossings(signal)
                /\ r[5 * C + 1] = Mean(c.hr_window)
                /\ r[5 * C + 2] = Std(c.hr_window)
                /\ r[5 * C + 3] = Delta(c.hr_window)
                /\ r[5 * C + 4] = Mean(c.temp_window)
                /\ r[5 * C + 5] = Delta(c.temp_window)

\* A call on two different channels and windows of several samples: fifteen
\* entries, those of the two channels apart.
C18_Witness ==
    \E c \in calc :
        /\ c.op = "extract_all_features"
        /\ c.emg_window.channels = 2
        /\ Column(c.emg_window, 1) = <<2, 0, -2, 1>>
        /\ Column(c.emg_window, 2) = <<1, -1, 1, -1>>
        /\ Len(c.hr_window) = 3 /\ Len(c.temp_window) = 3
        /\ Len(c.returned) = 15
        /\ ChannelPart(c.returned, 1) =
              <<Root(9, 4), Ratio(5, 4), Number(5), Number(7), Number(3)>>
        /\ ChannelPart(c.returned, 2) =
              <<Root(4, 4), Ratio(4, 4), Number(4), Number(6), Number(3)>>
        /\ SubSeq(c.returned, 11, 15) =
              <<Ratio(195, 3), Root(150, 9), Number(-5), Ratio(1107, 3), Number(5)>>

\* The indices i with sign(x[i]) # sign(x[i+1])
SignChanges(x) == {i \in 1..(Len(x) - 1) : Sign(x[i]) # Sign(x[i + 1])}

\* The zero-crossing counts a call returned, one per channel.
Counted(c) == [ch \in 1..c.emg_window.channels |-> c.returned[5 * (ch - 1) + 5]]

(* C19: for every channel signal the zero-crossing count is the number of      *)
(* indices i with sign(x[i]) # sign(x[i+1]); a strictly alternating signal of  *)
(* n nonzero samples has count n-1 ([1, -1, 1, -1] has 3) and a signal of      *)
(* constant sign has count 0.                                                  *)
C19_ZeroCrossingCount ==
    \A c \in calc :
        \A ch \in 1..c.emg_window.channels :
            LET x == Column(c.emg_window, ch)
                zc == Counted(c)[ch]
            IN  /\ zc = Number(Cardinality(SignChanges(x)))
                /\ x = <<1, -1, 1, -1>> => zc = Number(3)
                /\ (Len(x) >= 1 /\ \A i \in 1..(Len(x) - 1) : x[i] * x[i + 1] < 0)
                      => zc = Number(Len(x) - 1)
                /\ (\A i, j \in 1..Len(x) : Sign(x[i]) = Sign(x[j])) => zc = Number(0)

\* extract_emg_features has counted the crossings of [1, -1, 1, -1].
C19_Witness ==
    \E c \in calc :
        /\ c.op = "extract_emg_features"
        /\ c.emg_window.channels = 1
        /\ Column(c.emg_window, 1) = <<1, -1, 1, -1>>
        /\ Counted(c) = <<Number(3)>>

\* The call before ran on x and the most recent one on x with one zero put in.
ZeroInserted ==
    /\ kept # {} /\ calc # {}
    /\ \A c \in calc : c.zero_at # {}

CountBefore == (CHOOSE c \in kept : TRUE).returned[5].num

CountAfter == (CHOOSE c \in calc : TRUE).returned[5].num

\* The zero was put next to a zero-valued sample, or into an empty signal.
NextToZero ==
    LET x == Column((CHOOSE c \in kept : TRUE).emg_window, 1)
        k == CHOOSE k \in (CHOOSE c \in calc : TRUE).zero_at : TRUE
    IN  \/ Len(x) = 0
        \/ k >= 1 /\ x[k] = 0
        \/ k < Len(x) /\ x[k + 1] = 0

(* C20, as claimed: inserting a zero-valued sample never increases the         *)
(* zero-crossing count; (positive, zero, positive) has count 0 and (positive,  *)
(* zero, negative) has count 1.                                                *)
C20_ZeroNeverCounts ==
    /\ ZeroInserted => CountAfter <= CountBefore
    /\ \A c \in calc :
          \A ch \in 1..c.emg_window.channels :
              LET x == Column(c.emg_window, ch)
              IN  Len(x) = 3 /\ x[1] > 0 /\ x[2] = 0 =>
                      /\ x[3] > 0 => Counted(c)[ch] = Number(0)
                      /\ x[3] < 0 => Counted(c)[ch] = Number(1)

(* C20, amended: a value held at zero does not count: a zero-valued sample     *)
(* inserted next to a zero-valued sample leaves the count unchanged.  Entering *)
(* and leaving zero are each a sign change: a zero-valued sample inserted next *)
(* to nonzero samples only increases the count, (positive, zero, positive) has *)
(* count 2 and (positive, zero, negative) has count 2.                         *)
C20_HeldZeroNotCounted ==
    /\ ZeroInserted =>
          /\ NextToZero => CountAfter = CountBefore
          /\ ~NextToZero => CountAfter > CountBefore
    /\ \A c \in calc :
          \A ch \in 1..c.emg_window.channels :
              LET x == Column(c.emg_window, ch)
              IN  Len(x) = 3 /\ x[1] > 0 /\ x[2] = 0 /\ x[3] # 0 =>
                      Counted(c)[ch] = Number(2)

\* A zero has been put between a zero and a negative sample of [1, 0, -1]:
\* the count stays 2.
C20_Witness ==
    /\ ZeroInserted
    /\ NextToZero
    /\ \E c \in kept : Column(c.emg_window, 1) = <<1, 0, -1>> /\ Counted(c) = <<Number(2)>>
    /\ \E c \in calc : Column(c.emg_window, 1) = <<1, 0, 0, -1>> /\ Counted(c) = <<Number(2)>>

\* x is within k units of relative rounding error 2^-MantissaBits of y.
Within(x, y, k) ==
    LET e == Min(x.e, y.e)
        X == x.m * Pow2(x.e - e)
        Y == y.m * Pow2(y.e - e)
    IN  Abs(X - Y) * Pow2(MantissaBits) <= k * Abs(Y)

\* The most recent call, once it has returned.
Returned == {c \in calc : c.returned # << >>}

\* Every sample of the channel is the same value.
HeldAt(signal) == \A i \in 1..Len(signal) : signal[i] = signal[1]

\* n, c^2 and n * c^2 are integers that a mantissa holds exactly.
SmallInteger(c, n) ==
    /\ c.e <= 0
    /\ c.m % Pow2(-c.e) = 0
    /\ n * (c.m \div Pow2(-c.e)) * (c.m \div Pow2(-c.e)) < Pow2(MantissaBits)

(* C21, as claimed: for a channel whose n >= 1 samples all equal c, RMS = |c|, *)
(* MAV = |c|, IEMG = n * |c| and the waveform length is 0.                     *)
C21_ConstantChannelExact ==
    \A c \in Returned :
        HeldAt(c.args[1]) =>
            /\ c.returned[1] = FAbs(c.args[1][1])
            /\ c.returned[2] = FAbs(c.args[1][1])
            /\ c.returned[3] = FMul(FInt(Len(c.args[1])), FAbs(c.args[1][1]))
            /\ c.returned[4] = FZero

(* C21, amended: for such a channel the waveform length is exactly 0, and     *)
(* RMS, MAV and IEMG are |c|, |c| and n * |c| up to the rounding of the sum,  *)
(* the division and the square root (a relative error of at most 2n roundings);*)
(* they are exact when n is 1, 2 or 4 and when c is an integer small enough    *)
(* for n * c^2 to be held exactly.                                             *)
C21_ConstantChannelRounded ==
    \A c \in Returned :
        HeldAt(c.args[1]) =>
            LET n == Len(c.args[1])
                a == FAbs(c.args[1][1])
                exact == n \in {1, 2, 4} \/ SmallInteger(a, n)
            IN  /\ c.returned[4] = FZero
                /\ Within(c.returned[1], a, 2 * n)
                /\ Within(c.returned[2], a, 2 * n)
                /\ Within(c.returned[3], FMul(FInt(n), a), 2 * n)
                /\ exact => /\ c.returned[1] = a
                            /\ c.returned[2] = a
                            /\ c.returned[3] = FMul(FInt(n), a)

\* A channel of three equal samples whose MAV is not the sample: an inexact
\* sum, within the rounding bound.
C21_Witness ==
    \E c \in Returned :
        /\ HeldAt(c.args[1]) /\ Len(c.args[1]) = 3
        /\ c.returned[2] # FAbs(c.args[1][1])
        /\ Within(c.returned[2], FAbs(c.args[1][1]), 6)
        /\ c.returned[4] = FZero

\* last sample minus first sample from two samples on, else 0
LastMinusFirst(w) == IF Len(w) >= 2 THEN w[Len(w)] - w[1] ELSE 0

(* C22: the heart-rate delta and the temperature rate are last sample minus   *)
(* first sample for a window of two or more samples and exactly 0 for a       *)
(* window of one sample or none; the heart-rate result has exactly 3 entries  *)
(* and the temperature result exactly 2.                                      *)
C22_DeltaAndRate ==
    \A c \in calc :
        /\ c.op = "extract_hr_features" =>
              /\ Len(c.returned) = 3
              /\ c.returned[3] = Number(LastMinusFirst(c.hr_window))
        /\ c.op = "extract_temp_features" =>
              /\ Len(c.returned) = 2
              /\ c.returned[2] = Number(LastMinusFirst(c.temp_window))
        /\ c.op = "extract_all_features" =>
              LET C == c.emg_window.channels
              IN  /\ c.returned[5 * C + 3] = Number(LastMinusFirst(c.hr_window))
                  /\ c.returned[5 * C + 5] = Number(LastMinusFirst(c.temp_window))

\* extract_hr_features has returned the delta of a window of two samples.
C22_Witness ==
    \E c \in calc :
        /\ c.op = "extract_hr_features"
        /\ c.hr_window = <<65, 60>>
        /\ c.returned[3] = Number(-5)

(* C23: a window too short for the requested operation is surfaced as an      *)
(* InsufficientSamples error and never silently zero-filled:                  *)
(* extract_hr_features and extract_temp_features on a window of fewer than 2  *)
(* samples fail instead of returning a value.                                 *)
C23_ShortWindowFails ==
    \A c \in calc :
        /\ (c.op = "extract_hr_features" /\ Len(c.hr_window) < 2) => c.returned = << >>
        /\ (c.op = "extract_temp_features" /\ Len(c.temp_window) < 2) => c.returned = << >>

\* Calls of calculate_muscle_fatigue that have returned.
FatigueCalls ==
    {c \in kept \cup calc : c.op = "calculate_muscle_fatigue" /\ c.returned # << >>}

\* Exact values are compared as integers: a float times 2^ExactShift.
ExactShift == MantissaBits + 1

Exact(a) == a.m * Pow2(a.e + ExactShift)

Units(n) == n * Pow2(ExactShift)

(* C24: the fatigue index is 100 * (1 - (m - 30) / 90) clamped to [0, 100]    *)
(* (up to the rounding of the four float operations): it lies in [0, 100],    *)
(* is 100 for every median frequency m <= 30 Hz, 0 for every m >= 120 Hz, and *)
(* does not increase when m increases.                                        *)
C24_FatigueIndexClamped ==
    \A c \in FatigueCalls :
        LET m == Exact(c.locals[2])
            v == Exact(c.returned[1])
        IN  /\ 0 <= v /\ v <= Units(100)
            /\ m <= Units(30) => v = Units(100)
            /\ m >= Units(120) => v = 0
            /\ (Units(30) < m /\ m < Units(120)) =>
                   Abs(90 * v - 100 * (Units(120) - m)) <= 90 * 400 * 2
            /\ \A d \in FatigueCalls :
                   m <= Exact(d.locals[2]) => v >= Exact(d.returned[1])

\* Two calls have returned: one with a median frequency below 30 Hz and the
\* index 100, one with a median frequency between 30 and 120 Hz and an index
\* strictly between 0 and 100.
C24_Witness ==
    \E c \in kept, d \in calc :
        /\ c \in FatigueCalls /\ d \in FatigueCalls
        /\ 0 < Exact(c.locals[2]) /\ Exact(c.locals[2]) < Units(30)
        /\ Exact(c.returned[1]) = Units(100)
        /\ Units(30) < Exact(d.locals[2]) /\ Exact(d.locals[2]) < Units(120)
        /\ 0 < Exact(d.returned[1]) /\ Exact(d.returned[1]) < Units(100)

\* The exact power in bins lo..hi of a spectrum.
RECURSIVE PowerIn(_, _, _)
PowerIn(Pxx, lo, hi) ==
    IF lo > hi THEN 0
    ELSE IF lo = hi THEN Exact(Pxx[lo])
    ELSE PowerIn(Pxx, lo, (lo + hi) \div 2) + PowerIn(Pxx, (lo + hi) \div 2 + 1, hi)

(* C27: the median frequency is the frequency at the least index k whose      *)
(* cumulative power Pxx[0] + ... + Pxx[k] is at least half of the total       *)
(* power; such an index exists for every non-negative spectrum; when the      *)
(* total power is zero it is index 0, the frequency is 0 Hz and the fatigue   *)
(* index is 100.                                                              *)
C27_MedianFrequency ==
    \A c \in FatigueCalls :
        LET f == c.args[1]
            Pxx == c.args[2]
            idx == c.locals[1]
            total == PowerIn(Pxx, 1, Len(Pxx))
        IN  /\ idx \in 1..Len(Pxx)
            /\ c.locals[2] = f[idx]
            /\ 2 * PowerIn(Pxx, 1, idx) >= total
            /\ \A k \in 1..(idx - 1) : 2 * PowerIn(Pxx, 1, k) < total
            /\ total = 0 =>
                   /\ idx = 1
                   /\ c.locals[2] = FZero
                   /\ c.returned[1] = FInt(100)

\* Two calls have returned: one on a spectrum without power, at index 0 with
\* the index 100, and one whose cumulative power reaches exactly half of the
\* total at the bin that was chosen, which is not the first one.
C27_Witness ==
    \E c \in kept, d \in calc :
        /\ c \in FatigueCalls /\ d \in FatigueCalls
        /\ c.args[2] = ZeroSpectrum
        /\ c.locals = <<1, FZero>>
        /\ c.returned = <<FInt(100)>>
        /\ d.locals[1] > 1
        /\ 2 * PowerIn(d.args[2], 1, d.locals[1]) = PowerIn(d.args[2], 1, NBins)

\* Calls of calculate_muscle_imbalance that have returned.
ImbalanceCalls ==
    {c \in kept \cup calc : c.op = "calculate_muscle_imbalance" /\ c.returned # << >>}

(* C25: the imbalance is 100 * |l - r| / (l + r) for the mean RMS values l    *)
(* and r when l + r > 0 and 0 when both are zero; it is always in [0, 100],   *)
(* never negative, and the same when left and right are swapped.              *)
C25_ImbalanceInRange ==
    /\ \A c \in ImbalanceCalls :
          LET l == c.locals[1]
              r == c.locals[2]
              v == c.returned[1]
          IN  /\ ~FLess(v, FZero)
              /\ ~FLess(FInt(100), v)
              /\ (l = FZero /\ r = FZero) => v = FZero
    /\ \A c \in kept, d \in calc :
          (c \in ImbalanceCalls /\ d \in ImbalanceCalls) => c.returned = d.returned

(* C26: the imbalance is exactly 0 when left and right are identical signals, *)
(* it is 100 exactly when one of the two mean RMS values is zero and the      *)
(* other is not, and strictly below 100 when both sides are nonzero.          *)
C26_ImbalanceExtremes ==
    \A c \in ImbalanceCalls :
        LET l == c.locals[1]
            r == c.locals[2]
            v == c.returned[1]
        IN  /\ c.args[1] = c.args[2] => v = FZero
            /\ v = FInt(100) <=> ((l = FZero) # (r = FZero))
            /\ (l # FZero /\ r # FZero) => FLess(v, FInt(100))

\* The position of previous_injuries in the feature vector
PreviousInjuries == CHOOSE i \in 1..NFeatures : feature_names[i] = "previous_injuries"

(* C28: when athlete_data has no previous_injuries key, predict_risk uses the *)
(* length of injury_history for that feature, and 0 when injury_history is    *)
(* absent too; when the key is present its value is used and injury_history   *)
(* is ignored.                                                                *)
C28_PreviousInjuriesImputed ==
    \A p \in pred :
        p.features[PreviousInjuries] =
            IF "previous_injuries" \in DOMAIN p.data.num
            THEN p.data.num["previous_injuries"]
            ELSE IF p.data.injury_history = {} THEN 0
            ELSE LET history == CHOOSE h \in p.data.injury_history : TRUE
                 IN  Len(history)

\* A prediction for an athlete without the key and with two injuries on
\* record: the feature is 2.
C28_Witness ==
    \E p \in pred :
        /\ "previous_injuries" \notin DOMAIN p.data.num
        /\ p.data.injury_history = TwoInjuries
        /\ p.features[PreviousInjuries] = 2

\* The pipeline train_model fits.
Fitted == {Fit(SyntheticData(NpSeed(RandomSeed)), RandomSeed)}

(* C29: train_model ends with the newly fitted pipeline in memory and writes  *)
(* it to the default artifact file, so that load_model() right after a        *)
(* train_model whose write succeeded yields that model; a failing write in    *)
(* save_model is swallowed (no exception, the model in memory unchanged); and *)
(* save_model with no model in memory writes nothing.                         *)
C29_TrainingPersisted ==
    /\ \A i \in 1..Len(Calls) :
          /\ Calls[i].op = "train_model" =>
                (Calls[i].after = Fitted /\ Calls[i].raised = "none")
          /\ (Calls[i].op = "save_model" /\ Calls[i].outcome # "written") =>
                (Calls[i].raised = "none" /\ Calls[i].after = Calls[i].before)
    /\ \A c \in LastCalls :
          /\ (c.op = "train_model" /\ c.outcome = "written") =>
                (model = Fitted /\ disk[DefaultFile] = Stored(Fitted))
          /\ (c.op = "save_model" /\ c.outcome = "failed") =>
                (model = c.before /\ disk[c.filename].state = c.found)
    /\ (/\ Len(Calls) = 2
        /\ Calls[1].op = "train_model" /\ Calls[1].outcome = "written"
        /\ Calls[2].op = "load_model" /\ Calls[2].filename = DefaultFile)
          => (Calls[2].raised = "none" /\ model = Calls[1].after /\ model = Fitted)
    /\ \A filename \in FileNames, outcome \in DumpOutcomes :
          save_model(None, disk, filename, outcome) = disk

\* train_model replaced an older model and wrote the default file, which
\* held another artifact, and load_model() then gave the fitted pipeline.
C29_Witness ==
    /\ Len(Calls) = 2
    /\ Calls[1].op = "train_model" /\ Calls[1].outcome = "written"
    /\ Calls[1].before = {OlderPipeline} /\ Calls[1].found = "ok"
    /\ Calls[2].op = "load_model" /\ Calls[2].filename = DefaultFile
    /\ model = Fitted /\ model # Calls[1].before

\* The colour a hex code of utils.risk_color stands for.
ColourOf(code) ==
    CASE code = "#4CAF50" -> "green"
      [] code = "#FFC107" -> "yellow"
      [] code = "#F44336" -> "red"
      [] OTHER -> "none"

\* The label that goes with a colour.
LabelOf(colour) ==
    CASE colour = "green" -> "Low"
      [] colour = "yellow" -> "Medium"
      [] colour = "red" -> "High"
      [] OTHER -> "none"

\* The count of get_team_summary that goes with a label.
BandOf(label) ==
    CASE label = "Low" -> "low"
      [] label = "Medium" -> "medium"
      [] label = "High" -> "high"
      [] OTHER -> "none"

\* The positions of a list that hold the given value.
Holding(list, value) == {i \in 1..Len(list) : list[i] = value}

(* C30: the risk bands are the same at every site: for every integer score in *)
(* 0..100, predict_risk's label is Low / Medium / High exactly when           *)
(* utils.risk_color gives green / yellow / red, when get_athlete_data's       *)
(* risk_color is green / yellow / red, and when get_team_summary counts the   *)
(* score as low / medium / high; and the low, medium and high counts of       *)
(* get_team_summary add up to total_athletes.                                 *)
C30_RiskBandsAgree ==
    /\ \A c \in calc :
          (c.op = "risk_bands" /\ c.locals # << >>) =>
              \A i \in 1..Len(c.args[1]) :
                  /\ c.locals[1][i] \in RiskLabels
                  /\ c.locals[1][i] = LabelOf(ColourOf(c.locals[2][i]))
                  /\ c.locals[1][i] = LabelOf(c.locals[3][i])
                  /\ c.locals[4][i] = {BandOf(c.locals[1][i])}
    /\ \A c \in kept :
          c.op = "get_team_summary" =>
              LET summary == c.returned[1]
                  labels == [i \in DOMAIN summary.risk_scores |->
                                RiskLabel(summary.risk_scores[i])]
              IN  /\ summary.low_risk_count + summary.medium_risk_count
                        + summary.high_risk_count = summary.total_athletes
                  /\ summary.low_risk_count = Cardinality(Holding(labels, "Low"))
                  /\ summary.medium_risk_count = Cardinality(Holding(labels, "Medium"))
                  /\ summary.high_risk_count = Cardinality(Holding(labels, "High"))

\* Scores on both sides of the lower threshold have been classified at the
\* four sites, and the team of seven has been counted, with athletes in more
\* than one band.
C30_Witness ==
    /\ \E c \in calc :
          /\ c.op = "risk_bands"
          /\ c.args[1][1] = 29 /\ c.args[1][2] = 30
          /\ c.locals # << >>
          /\ c.locals[1][1] = "Low" /\ c.locals[1][2] = "Medium"
          /\ c.locals[4][1] = {"low"} /\ c.locals[4][2] = {"medium"}
    /\ \E c \in kept :
          /\ c.op = "get_team_summary"
          /\ c.returned[1].total_athletes = 7
          /\ c.returned[1].low_risk_count > 0
          /\ c.returned[1].low_risk_count < 7

====
